---- MODULE Spec2Model ----
(***************************************************************************)
(* A model of the dico document engine (src/dico/__init__.py): field       *)
(* descriptors, the notifying list container, document construction, the   *)
(* validation engine with its validity cache, and dict_for_save /          *)
(* dict_for_public / dict_for_owner.                                       *)
(*                                                                         *)
(* The schema instantiated here combines the classes of src/tests.py       *)
(* test_embedded and test_list_embedded with a length bound as in          *)
(* test_list_field and a rename filter as in test_pre_save_partial:        *)
(*                                                                         *)
(*   class OAuthToken(Document):                                           *)
(*       consumer_secret = StringField(required=True)                      *)
(*       active = BooleanField(default=True)                               *)
(*       owner_fields = ['consumer_secret']                                *)
(*   class User(Document):                                                 *)
(*       token  = EmbeddedDocumentField(OAuthToken)                        *)
(*       tokens = ListField(EmbeddedDocumentField(OAuthToken),             *)
(*                          max_length=1)                                  *)
(*       public_fields = ['tokens'] ; owner_fields = ['token', 'tokens']   *)
(*   class Group(Document):                                                *)
(*       user = EmbeddedDocumentField(User)                                *)
(*       pre_save_filter = partial(rename_field, 'user', '_user')          *)
(*                                                                         *)
(* and, for the flat documents, the classes of test_alias,                 *)
(* test_dict_visibility, test_properties and test_sublassing:              *)
(*                                                                         *)
(*   class Account(Document):                                              *)
(*       id   = IntegerField(aliases=['_id'])                              *)
(*       name = StringField(required=True)                                 *)
(*       age  = property(lambda self: 42)                                  *)
(*       public_fields = ['id', 'age'] ; owner_fields = ['name', 'id']     *)
(*   class Ghosted(Document):                                              *)
(*       id = IntegerField()                                               *)
(*       public_fields = ['age']          (no attribute of that name)      *)
(*   class BaseDocument(Document):                                         *)
(*       id = IntegerField(required=True)                                  *)
(*   class Child(BaseDocument):                                            *)
(*       name = StringField()                                              *)
(*                                                                         *)
(* and, for the defaults, the fields of test_default_value and of the      *)
(* creation_date of test_callable_default, with a list default:            *)
(*                                                                         *)
(*   class Event(Document):                                                *)
(*       creation_date = DateTimeField(default=datetime.datetime.utcnow)   *)
(*       count = IntegerField(default=3)                                   *)
(*       tags  = ListField(StringField(), default=[])                      *)
(*                                                                         *)
(* and, for the scalar predicates, the choices and the filter chains, the  *)
(* fields of test_choices, test_ip_address, test_boolean_field and         *)
(* test_integer_field with the filters of test_pre_save:                   *)
(*                                                                         *)
(*   class Host(Document):                                                 *)
(*       level   = IntegerField(choices=['toto', 3])                       *)
(*       ip      = IPAddressField()                                        *)
(*       enabled = BooleanField()                                          *)
(*       port    = IntegerField()                                          *)
(*       public_fields = ['ip', 'port'] ; owner_fields = ['level', 'ip']   *)
(*       pre_save_filter = [add_name, None,                                *)
(*                          partial(rename_field, 'name', 'label')]        *)
(*       pre_public_filter = partial(rename_field, 'ip', 'address')        *)
(*                                                                         *)
(* Python values are strings: "absent" is a key missing from _data,        *)
(* "None" is None, "s" a str ('toto'), "ip" the str of an IP address, "i0",  *)
(* "i3", "i42" ints, "f" a float, "bT" True, "d1", "d2", ... the datetimes *)
(* utcnow returns; a document, a NotifyParentList  *)
(* or the list object given as a default is named by its identity.         *)
(***************************************************************************)
EXTENDS Integers, Sequences, FiniteSets, TLC

\* ------------------------------------------------------------------ bounds
\* The longest list a container operation may build.
MaxListLen == 2
\* The longest list passed as an argument to a container operation.
MaxArgLen == 1
\* The number of calls of datetime.datetime.utcnow a run may make.
MaxCalls == 2

\* --------------------------------------------------------------- universe
Absent == "absent"
None == "None"

Tokens == {"t1", "t2"}
Users == {"u1", "u2"}
Groups == {"g1"}
Accounts == {"a1"}
Ghosteds == {"x1"}
Children_ == {"c1"}
Events == {"e1", "e2"}
Hosts == {"h1"}
DocIds ==
    Groups \cup Users \cup Tokens \cup Accounts \cup Ghosteds \cup Children_
    \cup Events \cup Hosts
ListIds == {"l1", "l2"}

ClassOf(d) ==
    IF d \in Tokens THEN "OAuthToken"
    ELSE IF d \in Users THEN "User"
    ELSE IF d \in Groups THEN "Group"
    ELSE IF d \in Accounts THEN "Account"
    ELSE IF d \in Ghosteds THEN "Ghosted"
    ELSE IF d \in Children_ THEN "Child"
    ELSE IF d \in Events THEN "Event"
    ELSE IF d \in Hosts THEN "Host"
    ELSE "builtin"

InstancesOf(c) ==
    IF c = "OAuthToken" THEN Tokens
    ELSE IF c = "User" THEN Users
    ELSE IF c = "Group" THEN Groups
    ELSE IF c = "Account" THEN Accounts
    ELSE IF c = "Ghosted" THEN Ghosteds
    ELSE IF c = "Child" THEN Children_
    ELSE IF c = "Event" THEN Events
    ELSE IF c = "Host" THEN Hosts
    ELSE {}

\* klass._fields: the declared fields of each model class.
Fields(c) ==
    IF c = "OAuthToken" THEN {"consumer_secret", "active"}
    ELSE IF c = "User" THEN {"token", "tokens"}
    ELSE IF c = "Group" THEN {"user"}
    ELSE IF c = "Account" THEN {"id", "name"}
    ELSE IF c = "Ghosted" THEN {"id"}
    ELSE IF c = "BaseDocument" THEN {"id"}
    ELSE IF c = "Child" THEN {"name"}
    ELSE IF c = "Event" THEN {"creation_date", "count", "tags"}
    ELSE IF c = "Host" THEN {"level", "ip", "enabled", "port"}
    ELSE {}

AllFields ==
    {"consumer_secret", "active", "token", "tokens", "user", "id", "name",
     "creation_date", "count", "tags", "level", "ip", "enabled", "port"}

\* The base classes of a model class, nearest first.
Bases(c) == IF c = "Child" THEN <<"BaseDocument">> ELSE <<>>

\* The field descriptors getattr/setattr find on an instance: the class's own
\* and, as class attributes, those of its bases.  They are the keys _data
\* can hold.
Descriptors(c) ==
    Fields(c) \cup UNION {Fields(Bases(c)[i]) : i \in 1..Len(Bases(c))}

\* klass._aliases_dict
AliasesDict(c) == IF c = "Account" THEN [_id |-> "id"] ELSE <<>>

\* The computed properties of a class and what they return.
Properties(c) == IF c = "Account" THEN [age |-> "i42"] ELSE <<>>

\* The list object written as `default=[]` in the class body of Event: one
\* object, created when the class is.
PlainList == "L0"

\* The datetimes utcnow returns, call after call.
Stamps == <<"d1", "d2", "d3", "d4">>
DateValues == {Stamps[i] : i \in 1..Len(Stamps)}

NoField == [kind |-> "none", is_required |-> FALSE, default |-> None,
            field_type |-> "builtin", subfield |-> "none", max_length |-> 0,
            min_length |-> 0, has_choices |-> FALSE, choices |-> {}]

\* The field descriptor objects (BaseField.__init__ and the subclasses').
FieldDef(c, f) ==
    IF c = "OAuthToken" /\ f = "consumer_secret"
        THEN [NoField EXCEPT !.kind = "String", !.is_required = TRUE]
    ELSE IF c = "OAuthToken" /\ f = "active"
        THEN [NoField EXCEPT !.kind = "Boolean", !.default = "bT"]
    ELSE IF c = "User" /\ f = "token"
        THEN [NoField EXCEPT !.kind = "Embedded", !.field_type = "OAuthToken"]
    ELSE IF c = "User" /\ f = "tokens"
        THEN [NoField EXCEPT !.kind = "List", !.subfield = "Embedded",
                             !.field_type = "OAuthToken",
                             !.max_length = 1]
    ELSE IF c = "Group" /\ f = "user"
        THEN [NoField EXCEPT !.kind = "Embedded", !.field_type = "User"]
    ELSE IF c = "Account" /\ f = "id"
        THEN [NoField EXCEPT !.kind = "Integer"]
    ELSE IF c = "Account" /\ f = "name"
        THEN [NoField EXCEPT !.kind = "String", !.is_required = TRUE]
    ELSE IF c = "Ghosted" /\ f = "id"
        THEN [NoField EXCEPT !.kind = "Integer"]
    ELSE IF c \in {"BaseDocument", "Child"} /\ f = "id"
        THEN [NoField EXCEPT !.kind = "Integer", !.is_required = TRUE]
    ELSE IF c = "Child" /\ f = "name"
        THEN [NoField EXCEPT !.kind = "String"]
    ELSE IF c = "Host" /\ f = "level"
        THEN [NoField EXCEPT !.kind = "Integer", !.has_choices = TRUE,
                             !.choices = {"s", "i3"}]
    ELSE IF c = "Host" /\ f = "ip"
        THEN [NoField EXCEPT !.kind = "IPAddress"]
    ELSE IF c = "Host" /\ f = "enabled"
        THEN [NoField EXCEPT !.kind = "Boolean"]
    ELSE IF c = "Host" /\ f = "port"
        THEN [NoField EXCEPT !.kind = "Integer"]
    ELSE IF c = "Event" /\ f = "creation_date"
        THEN [NoField EXCEPT !.kind = "DateTime", !.default = "utcnow"]
    ELSE IF c = "Event" /\ f = "count"
        THEN [NoField EXCEPT !.kind = "Integer", !.default = "i3"]
    ELSE IF c = "Event" /\ f = "tags"
        THEN [NoField EXCEPT !.kind = "List", !.subfield = "String",
                             !.default = PlainList]
    ELSE NoField

\* The ints among the values (a bool is an int too, for isinstance).
IntValues == {"i0", "i3", "i42"}
\* The strs among the values, and those that are an IPv4 or IPv6 address.
StrValues == {"s", "ip"}
AddressValues == {"ip"}

\* isinstance(value, Document)
IsDocument(v) == v \in DocIds

\* Python truth value of a stored value (used by NotifyParentList.pop).
Truthy(H, v) ==
    IF v \in {None, Absent, "i0", "bF", ""} THEN FALSE
    ELSE IF v \in ListIds THEN Len(H.lists[v].items) > 0
    ELSE TRUE

\* ------------------------------------------------------------------ state
VARIABLES
    docs,               \* the Document instances constructed so far
    data,               \* d._data: field name -> value ("absent": no key)
    modified_fields,    \* d._modified_fields
    is_valid,           \* d._is_valid
    parent,             \* d._parent
    parent_field_name,  \* d._parent_field_name
    lists,              \* the NotifyParentList objects: _parent, _field_name, items
    default_list,       \* the items of the list object Event.tags has as default
    utcnow_calls,       \* how many times datetime.datetime.utcnow was called
    the_dict,           \* the mapping a caller passes to rename_field
    pool                \* the identities a run gives to the documents it creates

vars == <<docs, data, modified_fields, is_valid, parent, parent_field_name,
          lists, default_list, utcnow_calls, the_dict, pool>>

NoList == [_parent |-> None, _field_name |-> None, items |-> <<>>]

\* The object graph as one value, for the operators that transform it.
Heap ==
    [docs |-> docs, data |-> data, modified |-> modified_fields,
     is_valid |-> is_valid, parent |-> parent, pfn |-> parent_field_name,
     lists |-> lists, default_list |-> default_list, calls |-> utcnow_calls,
     pool |-> pool, oom |-> FALSE]

SetHeap(H) ==
    /\ docs' = H.docs
    /\ data' = H.data
    /\ modified_fields' = H.modified
    /\ is_valid' = H.is_valid
    /\ parent' = H.parent
    /\ parent_field_name' = H.pfn
    /\ lists' = H.lists
    /\ default_list' = H.default_list
    /\ utcnow_calls' = H.calls
    /\ the_dict' = the_dict
    /\ pool' = H.pool

\* dict.get(field_name): a missing key reads as None.
DataGet(H, d, f) == IF H.data[d][f] = Absent THEN None ELSE H.data[d][f]

\* The lists some document's storage refers to; the others are garbage.
LiveLists(H) ==
    {l \in ListIds : \E d \in H.docs : \E f \in Fields(ClassOf(d)) : H.data[d][f] = l}

\* Garbage lists are forgotten (no caller keeps a reference to a list it
\* replaced).
Collect(H) ==
    [H EXCEPT !.lists = [l \in ListIds |->
        IF l \in LiveLists(H) THEN H.lists[l] ELSE NoList]]

\* The identity of a list created for self.f: any identity that no other
\* field's storage refers to (the list it replaces is garbage by then).
FreshList(H, self, f) ==
    CHOOSE l \in ListIds :
        \A d \in H.docs : \A g \in Fields(ClassOf(d)) :
            H.data[d][g] = l => (d = self /\ g = f)
FreeDocs(H, c) == (InstancesOf(c) \cap H.pool) \ H.docs

Ret(t, v) == [t |-> t, v |-> v]
RetNone == Ret("none", None)
Raise(e) == Ret("raise", e)

\* ------------------------------------------------ BaseField.__set__ et al.
\* The loop of BaseField.__set__ / NotifyParentList._notify_parents:
\*   while instance._parent is not None:
\*       instance._parent._modified_fields.add(instance._parent_field_name)
\*       instance = instance._parent
RECURSIVE NotifyChain(_, _, _)
NotifyChain(H, instance, fuel) ==
    IF H.parent[instance] = None \/ fuel = 0 THEN H
    ELSE NotifyChain(
            [H EXCEPT !.modified[H.parent[instance]] = @ \cup {H.pfn[instance]}],
            H.parent[instance], fuel - 1)

\* Whether that loop, started at `instance`, is left: a walk of more rounds
\* than there are documents visits one of them twice and never ends.
RECURSIVE WalkEnds(_, _, _)
WalkEnds(H, instance, fuel) ==
    IF H.parent[instance] = None THEN TRUE
    ELSE IF fuel = 0 THEN FALSE
    ELSE WalkEnds(H, H.parent[instance], fuel - 1)

\* A setter that stores the value and clears the cache but does not record
\* the field name.
BaseField_set_unrecorded(H, instance, f, value) ==
    NotifyChain(
        [H EXCEPT !.data[instance][f] = value,
                  !.is_valid[instance] = FALSE],
        instance, Cardinality(DocIds))

BaseField_set(H, instance, f, value) ==
    NotifyChain(
        [H EXCEPT !.data[instance][f] = value,
                  !.modified[instance] = @ \cup {f},
                  !.is_valid[instance] = FALSE],
        instance, Cardinality(DocIds))

EmbeddedDocumentField_set(H, instance, f, value) ==
    LET H1 == IF IsDocument(value) THEN [H EXCEPT !.pfn[value] = f] ELSE H
    IN BaseField_set(H1, instance, f, value)

\* ListField.__set__ with a value that is not iterable (iter raises TypeError).
ListField_set_scalar(H, instance, f, value) ==
    BaseField_set(H, instance, f, value)

\* ListField.__set__ with a plain Python list: it is wrapped in a new
\* NotifyParentList owned by (instance, f), and every Document in it gets
\* its _parent_field_name set (its _parent is left alone).
ListField_set_seq(H, instance, f, seq) ==
    LET l == FreshList(H, instance, f)
        H1 == [H EXCEPT !.lists[l] =
                  [_parent |-> instance, _field_name |-> f, items |-> seq]]
        H2 == [H1 EXCEPT !.pfn = [d \in DocIds |->
                  IF \E i \in 1..Len(seq) : seq[i] = d THEN f ELSE H1.pfn[d]]]
    IN BaseField_set(H2, instance, f, l)

\* ListField.__set__ with a value that is already a NotifyParentList: it is
\* stored as it is, with the owner it has, and every Document in it gets its
\* _parent_field_name set.
ListField_set_container(H, instance, f, l) ==
    LET H1 == [H EXCEPT !.pfn = [d \in DocIds |->
                  IF \E i \in 1..Len(H.lists[l].items) : H.lists[l].items[i] = d
                  THEN f ELSE H.pfn[d]]]
    IN BaseField_set(H1, instance, f, l)

\* callable(value): of the values of this model only the factory utcnow.
callable(value) == value = "utcnow"

\* value(): one more call of utcnow, which answers the next datetime.
Call(H) ==
    IF H.calls >= MaxCalls THEN [H |-> [H EXCEPT !.oom = TRUE], value |-> None]
    ELSE [H |-> [H EXCEPT !.calls = @ + 1], value |-> Stamps[H.calls + 1]]

\* `if value is not None: instance._data[self.field_name] = value`
StoreRead(r, instance, f) ==
    IF r.value # None THEN [r EXCEPT !.H.data[instance][f] = r.value] ELSE r

\* A getter that takes the default whatever storage holds.
BaseField_get_refresh(H, instance, f) ==
    LET dflt == FieldDef(ClassOf(instance), f).default
    IN IF dflt = None THEN [H |-> H, value |-> DataGet(H, instance, f)]
       ELSE StoreRead(IF callable(dflt) THEN Call(H) ELSE [H |-> H, value |-> dflt],
                      instance, f)

\* BaseField.__get__ / ListField.__get__: [H |-> heap after, value |-> result]
BaseField_get(H, instance, f) ==
    LET stored == DataGet(H, instance, f)
        value == IF stored = None THEN FieldDef(ClassOf(instance), f).default
                 ELSE stored
    IN StoreRead(IF callable(value) THEN Call(H) ELSE [H |-> H, value |-> value],
                 instance, f)

\* A getter that answers what storage holds, None included.
ListField_get_plain(H, instance, f) == BaseField_get(H, instance, f)

\* A getter that records the field as modified when it creates its list.
ListField_get_marking(H, instance, f) ==
    LET r == BaseField_get(H, instance, f)
    IN IF r.value = None
       THEN [H |-> ListField_set_seq(r.H, instance, f, <<>>),
             value |-> FreshList(r.H, instance, f)]
       ELSE r

ListField_get(H, instance, f) ==
    LET r == BaseField_get(H, instance, f)
        l == FreshList(r.H, instance, f)
    IN IF r.value = None
       THEN [H |-> [r.H EXCEPT !.data[instance][f] = l,
                               !.lists[l] = [_parent |-> instance,
                                             _field_name |-> f,
                                             items |-> <<>>]],
             value |-> l]
       ELSE r

\* getattr(instance, f) on a declared field
Field_get(H, instance, f) ==
    IF FieldDef(ClassOf(instance), f).kind = "List"
    THEN ListField_get(H, instance, f)
    ELSE BaseField_get(H, instance, f)

\* --------------------------------------------------------- NotifyParentList
\* Plain list operations; indices are Python's (0-based).
Take(seq, n) == SubSeq(seq, 1, n)
Drop(seq, n) == SubSeq(seq, n + 1, Len(seq))
ListInsert(seq, i, x) == Take(seq, i) \o <<x>> \o Drop(seq, i)
ListDelete(seq, i) == Take(seq, i) \o Drop(seq, i + 1)
ListReplace(seq, i, x) == Take(seq, i) \o <<x>> \o Drop(seq, i + 1)
ListSetSlice(seq, i, j, new) == Take(seq, i) \o new \o Drop(seq, j)
InList(seq, x) == \E k \in 1..Len(seq) : seq[k] = x
FirstIndex(seq, x) == CHOOSE k \in 1..Len(seq) :
    seq[k] = x /\ \A m \in 1..(k - 1) : seq[m] # x

\* _tag_obj_for_parent_name(obj) for a single object: only a Document is
\* tagged (the scalars of this model are not iterable or hold no Document).
TagObj(H, l, obj) ==
    IF IsDocument(obj)
    THEN [H EXCEPT !.parent[obj] = H.lists[l]._parent,
                   !.pfn[obj] = H.lists[l]._field_name]
    ELSE H

\* _tag_obj_for_parent_name(obj) for an iterable: every Document entry.
TagSeq(H, l, seq) ==
    [H EXCEPT
        !.parent = [d \in DocIds |->
            IF InList(seq, d) THEN H.lists[l]._parent ELSE H.parent[d]],
        !.pfn = [d \in DocIds |->
            IF InList(seq, d) THEN H.lists[l]._field_name ELSE H.pfn[d]]]

\* NotifyParentList._notify_parents
NotifyParents(H, l) ==
    LET owner == H.lists[l]._parent
    IN NotifyChain(
           [H EXCEPT !.modified[owner] = @ \cup {H.lists[l]._field_name}],
           owner, Cardinality(DocIds))

SetItems(H, l, seq) == [H EXCEPT !.lists[l].items = seq]

\* Each method: [H |-> heap after, ret |-> what the call returns or raises].
NPL_append(H, l, obj) ==
    LET H1 == NotifyParents(TagObj(H, l, obj), l)
    IN [H |-> SetItems(H1, l, Append(H1.lists[l].items, obj)), ret |-> RetNone]

NPL_insert(H, l, index, obj) ==
    LET H1 == NotifyParents(TagObj(H, l, obj), l)
    IN [H |-> SetItems(H1, l, ListInsert(H1.lists[l].items, index, obj)),
        ret |-> RetNone]

NPL_setitem(H, l, key, value) ==
    LET H1 == NotifyParents(TagObj(H, l, value), l)
    IN IF key < Len(H1.lists[l].items)
       THEN [H |-> SetItems(H1, l, ListReplace(H1.lists[l].items, key, value)),
             ret |-> RetNone]
       ELSE [H |-> H1, ret |-> Raise("IndexError")]

NPL_delitem(H, l, key) ==
    LET H1 == NotifyParents(H, l)
    IN IF key < Len(H1.lists[l].items)
       THEN [H |-> SetItems(H1, l, ListDelete(H1.lists[l].items, key)),
             ret |-> RetNone]
       ELSE [H |-> H1, ret |-> Raise("IndexError")]

NPL_remove(H, l, value) ==
    LET H1 == NotifyParents(H, l)
        items == H1.lists[l].items
    IN IF InList(items, value)
       THEN [H |-> SetItems(H1, l, ListDelete(items, FirstIndex(items, value) - 1)),
             ret |-> RetNone]
       ELSE [H |-> H1, ret |-> Raise("ValueError")]

NPL_extend(H, l, iterable) ==
    LET H1 == NotifyParents(TagSeq(H, l, iterable), l)
    IN [H |-> SetItems(H1, l, H1.lists[l].items \o iterable), ret |-> RetNone]

\* __add__ returns a new plain list and leaves the container as it is.
NPL_add(H, l, other) ==
    LET H1 == NotifyParents(TagSeq(H, l, other), l)
    IN [H |-> H1, ret |-> Ret("list", H1.lists[l].items \o other)]

NPL_setslice(H, l, i, j, seq) ==
    LET H1 == NotifyParents(TagSeq(H, l, seq), l)
    IN [H |-> SetItems(H1, l, ListSetSlice(H1.lists[l].items, i, j, seq)),
        ret |-> RetNone]

NPL_delslice(H, l, i, j) ==
    LET H1 == NotifyParents(H, l)
    IN [H |-> SetItems(H1, l, ListSetSlice(H1.lists[l].items, i, j, <<>>)),
        ret |-> RetNone]

\* pop(index=None): the element is removed first; the parents are notified
\* only if the removed element is true; nothing is returned.  `args` is the
\* argument tuple: <<>> or <<index>>, the index 0-based.
NPL_pop(H, l, args) ==
    LET items == H.lists[l].items
        k == IF args = <<>> THEN Len(items) - 1 ELSE args[1]
    IN IF Len(items) = 0 \/ k >= Len(items)
       THEN [H |-> H, ret |-> Raise("IndexError")]
       ELSE LET H1 == SetItems(H, l, ListDelete(items, k))
            IN [H |-> IF Truthy(H, items[k + 1]) THEN NotifyParents(H1, l) ELSE H1,
                ret |-> RetNone]

\* --------------------------------------------------------- Document.__init__
\* Constructor arguments.  A keyword value is a plain value, a mapping (the
\* keyword arguments of the nested constructor) or a Python list of such;
\* NoArg marks a keyword that is not supplied.
Val(v) == [val |-> v]
Dict(m) == [dict |-> m]
ListOf(s) == [list |-> s]
NoArg == [absent |-> Absent]
ArgKind(arg) == CHOOSE k \in DOMAIN arg : TRUE
ArgVal(arg) == arg[ArgKind(arg)]

\* The keywords a constructor call may carry, in the order in which
\* values.keys() is iterated: field names, aliases and, for Account, a name
\* that is neither.
KeyOrder(c) ==
    IF c = "OAuthToken" THEN <<"consumer_secret", "active">>
    ELSE IF c = "User" THEN <<"token", "tokens">>
    ELSE IF c = "Group" THEN <<"user">>
    ELSE IF c = "Account" THEN <<"id", "_id", "name", "bad_name">>
    ELSE IF c = "Ghosted" THEN <<"id">>
    ELSE IF c = "Child" THEN <<"id", "name">>
    ELSE IF c = "Event" THEN <<"creation_date", "count", "tags">>
    ELSE IF c = "Host" THEN <<"level", "ip", "enabled", "port">>
    ELSE <<>>

\* Document._get_real_field
get_real_field(c, name) ==
    IF name \in Fields(c) THEN name
    ELSE IF name \in DOMAIN AliasesDict(c) THEN AliasesDict(c)[name]
    ELSE None

FreshDoc(H, c) == CHOOSE d \in FreeDocs(H, c) : TRUE
OutOfObjects(H) == [H EXCEPT !.oom = TRUE]

RECURSIVE Document_init(_, _, _, _, _)
RECURSIVE InitKeys(_, _, _, _)
RECURSIVE InitKey(_, _, _, _)
RECURSIVE InitRealKey(_, _, _, _)
RECURSIVE InitList(_, _, _, _, _, _)

\* Document.__init__(self, parent, parent_field_name, **values)
Document_init(H, self, par, pfn, values) ==
    LET H0 == [H EXCEPT !.docs = @ \cup {self},
                        !.modified[self] = {},
                        !.is_valid[self] = FALSE,
                        !.data[self] = [f \in Descriptors(ClassOf(self)) |-> Absent],
                        !.parent[self] = par,
                        !.pfn[self] = pfn]
    IN InitKeys(H0, self, values, 1)

InitKeys(H, self, values, i) ==
    LET order == KeyOrder(ClassOf(self))
    IN IF i > Len(order) \/ H.oom THEN H
       ELSE InitKeys(InitKey(H, self, order[i], values[order[i]]), self, values, i + 1)

\* A cascade that puts each element it keeps in front of those kept before.
RECURSIVE InitList_reversed(_, _, _, _, _, _)
InitList_reversed(H, self, key, elems, i, obj_list) ==
    LET field_type == FieldDef(ClassOf(self), key).field_type
        obj == elems[i]
    IN IF i > Len(elems) \/ H.oom THEN [H |-> H, obj_list |-> obj_list]
       ELSE IF ArgKind(obj) = "dict"
       THEN IF FreeDocs(H, field_type) = {}
            THEN [H |-> OutOfObjects(H), obj_list |-> obj_list]
            ELSE LET n == FreshDoc(H, field_type)
                 IN InitList_reversed(Document_init(H, n, self, key, ArgVal(obj)),
                                      self, key, elems, i + 1, <<n>> \o obj_list)
       ELSE IF ArgKind(obj) = "val" /\ ArgVal(obj) \in InstancesOf(field_type)
       THEN InitList_reversed(H, self, key, elems, i + 1, <<ArgVal(obj)>> \o obj_list)
       ELSE InitList_reversed(H, self, key, elems, i + 1, obj_list)

\* The cascade over the elements of a list-of-embedded value: the heap and
\* the obj_list built so far.
InitList(H, self, key, elems, i, obj_list) ==
    LET field_type == FieldDef(ClassOf(self), key).field_type
        obj == elems[i]
    IN IF i > Len(elems) \/ H.oom THEN [H |-> H, obj_list |-> obj_list]
       ELSE IF ArgKind(obj) = "dict"
       THEN IF FreeDocs(H, field_type) = {}
            THEN [H |-> OutOfObjects(H), obj_list |-> obj_list]
            ELSE LET n == FreshDoc(H, field_type)
                 IN InitList(Document_init(H, n, self, key, ArgVal(obj)), self, key,
                             elems, i + 1, Append(obj_list, n))
       ELSE IF ArgKind(obj) = "val" /\ ArgVal(obj) \in InstancesOf(field_type)
       THEN InitList(H, self, key, elems, i + 1, Append(obj_list, ArgVal(obj)))
       ELSE InitList(H, self, key, elems, i + 1, obj_list)

\* One iteration of `for key in values.keys()`, the key resolved.
InitRealKey(H, self, key, arg) ==
    LET field == FieldDef(ClassOf(self), key)
    IN IF field.kind = "Embedded" /\ ArgKind(arg) = "dict"
       THEN IF FreeDocs(H, field.field_type) = {} THEN OutOfObjects(H)
            ELSE LET n == FreshDoc(H, field.field_type)
                     H1 == Document_init(H, n, self, key, ArgVal(arg))
                 IN [H1 EXCEPT !.data[self][key] = n]
       ELSE IF field.kind = "Embedded" /\ ArgKind(arg) = "val"
               /\ ArgVal(arg) \in InstancesOf(field.field_type)
       THEN [H EXCEPT !.data[self][key] = ArgVal(arg)]
       ELSE IF field.kind = "List" /\ field.subfield = "Embedded"
       THEN IF ArgKind(arg) # "list" \/ Len(ArgVal(arg)) = 0 THEN H
            ELSE LET r == InitList(H, self, key, ArgVal(arg), 1, <<>>)
                     l == FreshList(r.H, self, key)
                 IN IF r.H.oom THEN r.H
                    ELSE [r.H EXCEPT !.data[self][key] = l,
                                     !.lists[l] = [_parent |-> self,
                                                   _field_name |-> key,
                                                   items |-> r.obj_list]]
       ELSE [H EXCEPT !.data[self][key] = ArgVal(arg)]

\* One iteration of `for key in values.keys()`.
InitKey(H, self, key, arg) ==
    IF ArgKind(arg) = "absent" THEN H
    ELSE IF get_real_field(ClassOf(self), key) = None THEN H
    ELSE InitRealKey(H, self, get_real_field(ClassOf(self), key), arg)

\* ------------------------------------------------------- validation engine
\* The order in which self._fields.keys() is iterated, per class: any order.
Reversed(seq) == [i \in 1..Len(seq) |-> seq[Len(seq) + 1 - i]]
ModelClasses ==
    {"OAuthToken", "User", "Group", "Account", "Ghosted", "Child", "Event",
     "Host"}
FieldOrder(c) ==
    IF c = "Account" THEN <<"id", "name">>
    ELSE IF c = "Child" THEN <<"name">>
    ELSE KeyOrder(c)
Orders ==
    {[c \in ModelClasses |-> FieldOrder(c)],
     [c \in ModelClasses |-> Reversed(FieldOrder(c))]}

True == Ret("bool", TRUE)
False == Ret("bool", FALSE)
IsTrue(ret) == ret.t = "bool" /\ ret.v
IsFalse(ret) == ret.t = "bool" /\ ~ret.v
Raises(ret, e) == ret.t = "raise" /\ ret.v = e

RECURSIVE Document_validate(_, _, _, _)
RECURSIVE ValidateFields(_, _, _, _, _, _)
RECURSIVE ValidateEntries(_, _, _, _, _)

\* EmbeddedDocumentField._validate
EmbeddedDocumentField_validate(H, field_type, value, ord) ==
    IF value \notin InstancesOf(field_type) THEN [H |-> H, ret |-> False]
    ELSE Document_validate(H, value, TRUE, ord)

\* the loop `for entry in value` of ListField._validate: r is the outcome
\* of the entries before the i-th.
ValidateEntries(r, field, items, i, ord) ==
    IF i > Len(items) \/ ~IsTrue(r.ret) THEN r
    ELSE ValidateEntries(
             IF field.subfield = "Embedded"
             THEN EmbeddedDocumentField_validate(r.H, field.field_type, items[i], ord)
             ELSE [H |-> r.H, ret |-> Ret("bool", items[i] \in {"s"})],
             field, items, i + 1, ord)

\* The items of a list object: a NotifyParentList or the default of
\* Event.tags.
ListItems(H, value) ==
    IF value = PlainList THEN H.default_list ELSE H.lists[value].items

\* ListField._validate
ListField_validate(H, field, value, ord) ==
    IF value \notin ListIds \cup {PlainList} THEN [H |-> H, ret |-> False]
    ELSE IF field.max_length # 0 /\ Len(ListItems(H, value)) > field.max_length
    THEN [H |-> H, ret |-> False]
    ELSE IF field.min_length # 0 /\ Len(ListItems(H, value)) < field.min_length
    THEN [H |-> H, ret |-> False]
    ELSE ValidateEntries([H |-> H, ret |-> True], field, ListItems(H, value), 1, ord)

\* IPAddressField._validate: socket.inet_pton answers for an address,
\* raises socket.error for another str and TypeError for what is no str;
\* only socket.error is caught.
IPAddressField_validate(value) ==
    IF value \in AddressValues THEN True
    ELSE IF value \in StrValues THEN False
    ELSE Raise("TypeError")

\* field._validate(value), by the kind of the field
Field_validate(H, field, value, ord) ==
    IF field.kind = "String"
    THEN [H |-> H, ret |-> Ret("bool", value \in StrValues)]
    ELSE IF field.kind = "IPAddress"
    THEN [H |-> H, ret |-> IPAddressField_validate(value)]
    ELSE IF field.kind = "Boolean"
    THEN [H |-> H, ret |-> Ret("bool", value \in {"bT", "bF"})]
    ELSE IF field.kind = "Integer"
    THEN [H |-> H, ret |-> Ret("bool", value \in IntValues \cup {"bT", "bF"})]
    ELSE IF field.kind = "DateTime"
    THEN [H |-> H, ret |-> Ret("bool", value \in DateValues)]
    ELSE IF field.kind = "Embedded"
    THEN EmbeddedDocumentField_validate(H, field.field_type, value, ord)
    ELSE ListField_validate(H, field, value, ord)

\* `if value is None and field.default is not None:
\*      self._data[field_name] = getattr(self, field_name)`
MaterializeDefault(H, self, field_name) ==
    IF DataGet(H, self, field_name) = None
       /\ FieldDef(ClassOf(self), field_name).default # None
    THEN LET g == Field_get(H, self, field_name)
         IN [g.H EXCEPT !.data[self][field_name] = g.value]
    ELSE H

\* A loop body that leaves the choices of the field aside.
ValidateValue_unchosen(H, self, field_name, stop_on_required, ord) ==
    IF DataGet(H, self, field_name) = None
    THEN [H |-> H,
          ret |-> Ret("bool", ~(stop_on_required
                                /\ FieldDef(ClassOf(self), field_name).is_required))]
    ELSE Field_validate(H, FieldDef(ClassOf(self), field_name),
                        DataGet(H, self, field_name), ord)

\* The body of the loop of _validate_fields for one declared field, the
\* default materialized: ret is False where the loop returns False, True
\* where it goes on.
ValidateValue(H, self, field_name, stop_on_required, ord) ==
    IF DataGet(H, self, field_name) = None
    THEN [H |-> H,
          ret |-> Ret("bool", ~(stop_on_required
                                /\ FieldDef(ClassOf(self), field_name).is_required))]
    ELSE IF FieldDef(ClassOf(self), field_name).has_choices
            /\ DataGet(H, self, field_name)
                   \notin FieldDef(ClassOf(self), field_name).choices
    THEN [H |-> H, ret |-> False]
    ELSE Field_validate(H, FieldDef(ClassOf(self), field_name),
                        DataGet(H, self, field_name), ord)

\* getattr(self, name): a field descriptor of the class or of a base class,
\* a property, or nothing (Document defines no __getattr__).
Getattr(H, self, name) ==
    IF name \in Descriptors(ClassOf(self))
    THEN [H |-> Field_get(H, self, name).H,
          ret |-> Ret("val", Field_get(H, self, name).value)]
    ELSE IF name \in DOMAIN Properties(ClassOf(self))
    THEN [H |-> H, ret |-> Ret("val", Properties(ClassOf(self))[name])]
    ELSE [H |-> H, ret |-> Raise("AttributeError")]

\* `if field_name not in self._fields.keys():
\*      if hasattr(self, field_name): continue
\*      else: raise KeyError`
ValidateNonField(g) ==
    IF g.ret.t = "raise" THEN [H |-> g.H, ret |-> Raise("KeyError")]
    ELSE [H |-> g.H, ret |-> True]

\* The body of the loop of _validate_fields for one name.
ValidateOne(H, self, field_name, stop_on_required, ord) ==
    IF field_name \notin Fields(ClassOf(self))
    THEN ValidateNonField(Getattr(H, self, field_name))
    ELSE ValidateValue(MaterializeDefault(H, self, field_name), self, field_name,
                       stop_on_required, ord)

\* Document._validate_fields(fields_list, stop_on_required): r is the
\* outcome of the names before the i-th.
ValidateFields(r, self, fields_list, i, stop_on_required, ord) ==
    IF i > Len(fields_list) \/ ~IsTrue(r.ret) THEN r
    ELSE ValidateFields(
             ValidateOne(r.H, self, fields_list[i], stop_on_required, ord),
             self, fields_list, i + 1, stop_on_required, ord)

Document_validate_fields(H, self, fields_list, stop_on_required, ord) ==
    ValidateFields([H |-> H, ret |-> True], self, fields_list, 1,
                   stop_on_required, ord)

\* A validation that records its success whether strict or partial.
CacheValid_partial(r, self, stop_on_required) ==
    IF IsTrue(r.ret)
    THEN [H |-> [r.H EXCEPT !.is_valid[self] = TRUE], ret |-> r.ret]
    ELSE r

\* A validate() that never records its success.
CacheValid_never(r, self, stop_on_required) == r

\* `if stop_on_required and is_valid: self._is_valid = True`
CacheValid(r, self, stop_on_required) ==
    IF stop_on_required /\ IsTrue(r.ret)
    THEN [H |-> [r.H EXCEPT !.is_valid[self] = TRUE], ret |-> r.ret]
    ELSE r

\* Document.validate(stop_on_required)
Document_validate(H, self, stop_on_required, ord) ==
    IF stop_on_required /\ H.is_valid[self] THEN [H |-> H, ret |-> True]
    ELSE CacheValid(
             Document_validate_fields(H, self, ord[ClassOf(self)],
                                      stop_on_required, ord),
             self, stop_on_required)

\* Document.validate_partial
Document_validate_partial(H, self, ord) == Document_validate(H, self, FALSE, ord)

\* ---------------------------------------------------- serialization engine
\* The configured public_fields / owner_fields lists ([] when not configured:
\* getattr(self, 'public_fields', [])).
public_fields(c) ==
    IF c = "User" THEN <<"tokens">>
    ELSE IF c = "Account" THEN <<"id", "age">>
    ELSE IF c = "Ghosted" THEN <<"age">>
    ELSE IF c = "Host" THEN <<"ip", "port">>
    ELSE <<>>
owner_fields(c) ==
    IF c = "OAuthToken" THEN <<"consumer_secret">>
    ELSE IF c = "User" THEN <<"token", "tokens">>
    ELSE IF c = "Account" THEN <<"name", "id">>
    ELSE IF c = "Host" THEN <<"level", "ip">>
    ELSE <<>>

\* rename_field(old_name, new_name, dict_to_filter)
rename_field(old_name, new_name, dict_to_filter) ==
    IF old_name \in DOMAIN dict_to_filter
    THEN LET added == [k \in DOMAIN dict_to_filter \cup {new_name} |->
                          IF k = new_name THEN dict_to_filter[old_name]
                          ELSE dict_to_filter[k]]
         IN [k \in DOMAIN added \ {old_name} |-> added[k]]
    ELSE dict_to_filter

\* add_name(filter_dict) of test_pre_save: filter_dict['name'] = 'Paule'
add_name(filter_dict) ==
    [k \in DOMAIN filter_dict \cup {"name"} |->
        IF k = "name" THEN [t |-> "val", v |-> "s"] ELSE filter_dict[k]]

\* The filter chain configured for a visibility: a list of
\* partial(rename_field, old, new), here as <<old, new>> pairs, of add_name,
\* here <<"add_name">>, and of entries that are not callable, here <<>>; a
\* single callable is the list of that callable.
FilterChain(c, visibility) ==
    IF c = "Group" /\ visibility = "save" THEN << <<"user", "_user">> >>
    ELSE IF c = "Host" /\ visibility = "save"
    THEN << <<"add_name">>, <<>>, <<"name", "label">> >>
    ELSE IF c = "Host" /\ visibility = "public" THEN << <<"ip", "address">> >>
    ELSE <<>>

\* `if callable(filter): to_filter = filter(to_filter)`
ApplyFilter(filter, to_filter) ==
    IF Len(filter) = 2 THEN rename_field(filter[1], filter[2], to_filter)
    ELSE IF Len(filter) = 1 THEN add_name(to_filter)
    ELSE to_filter

\* A chain applied from its last filter to its first.
RECURSIVE ApplyFilters_backwards(_, _, _)
ApplyFilters_backwards(filters, i, to_filter) ==
    IF i > Len(filters) THEN to_filter
    ELSE ApplyFilters_backwards(filters, i + 1,
                                ApplyFilter(filters[Len(filters) + 1 - i], to_filter))

\* Document._apply_filters: the filters in list order.
RECURSIVE ApplyFilters(_, _, _)
ApplyFilters(filters, i, to_filter) ==
    IF i > Len(filters) THEN to_filter
    ELSE ApplyFilters(filters, i + 1, ApplyFilter(filters[i], to_filter))

\* The names of seq that satisfy the test, in the order of seq.
RECURSIVE Keep(_, _)
Keep(seq, S) ==
    IF seq = <<>> THEN <<>>
    ELSE IF Head(seq) \in S THEN <<Head(seq)>> \o Keep(Tail(seq), S)
    ELSE Keep(Tail(seq), S)

RECURSIVE DictFor(_, _, _, _)
RECURSIVE CallForVisibilityOnChild(_, _, _, _, _, _)
RECURSIVE CallOnEntries(_, _, _, _, _)

\* getattr(doc, 'dict_for_%s' % visibility)() on an entry of a list
EntryDict(H, doc, visibility, ord) ==
    IF ~IsDocument(doc) THEN [H |-> H, ret |-> Raise("AttributeError")]
    ELSE DictFor(H, doc, visibility, ord)

\* current_field.append(e), unless the call raised
AppendEntry(current_field, e) ==
    IF e.ret.t = "raise" THEN e
    ELSE [H |-> e.H, ret |-> Ret("list", Append(current_field, e.ret))]

\* The loop `for doc in data_dict[field]` of _call_for_visibility_on_child:
\* r holds the list current_field built from the entries before the i-th, or
\* what was raised.
CallOnEntries(r, items, i, visibility, ord) ==
    IF i > Len(items) \/ r.ret.t = "raise" THEN r
    ELSE CallOnEntries(
             AppendEntry(r.ret.v, EntryDict(r.H, items[i], visibility, ord)),
             items, i + 1, visibility, ord)

\* A child call whose result is dropped: data_dict[f] keeps the value copied
\* from storage.
Put_dropped(r, data_dict, f) ==
    IF r.ret.t = "raise" THEN r
    ELSE [H |-> r.H, ret |-> Ret("dict", data_dict)]

\* data_dict[f] = <the result r of the call>, unless the call raised
Put(r, data_dict, f) ==
    IF r.ret.t = "raise" THEN r
    ELSE [H |-> r.H, ret |-> Ret("dict", [data_dict EXCEPT ![f] = r.ret])]

\* A loop body that works on self._data itself instead of on the copy: the
\* mapping of the embedded document also replaces the document in storage.
CallOnChild_in_place(H, self, data_dict, f, visibility, ord) ==
    IF FieldDef(ClassOf(self), f).kind = "Embedded"
       /\ f \in DOMAIN data_dict /\ IsDocument(data_dict[f].v)
    THEN [H |-> [H EXCEPT !.data[self][f] = "mapping"],
          ret |-> Ret("dict", [data_dict EXCEPT ![f] = Ret("dict", <<>>)])]
    ELSE [H |-> H, ret |-> Ret("dict", data_dict)]

\* A loop body that renders every nested document with dict_for_save(),
\* whatever the visibility asked for.
CallOnChild_for_save(H, self, data_dict, f, visibility, ord) ==
    IF FieldDef(ClassOf(self), f).kind = "Embedded"
       /\ f \in DOMAIN data_dict /\ IsDocument(data_dict[f].v)
    THEN Put(DictFor(H, data_dict[f].v, "save", ord), data_dict, f)
    ELSE IF FieldDef(ClassOf(self), f).kind = "List"
            /\ f \in DOMAIN data_dict /\ data_dict[f].v \in ListIds
    THEN Put(CallOnEntries([H |-> H, ret |-> Ret("list", <<>>)],
                           H.lists[data_dict[f].v].items, 1, "save", ord),
             data_dict, f)
    ELSE [H |-> H, ret |-> Ret("dict", data_dict)]

\* The body of the loop of _call_for_visibility_on_child for one field.
CallOnChild(H, self, data_dict, f, visibility, ord) ==
    IF FieldDef(ClassOf(self), f).kind = "Embedded"
    THEN IF f \in DOMAIN data_dict /\ data_dict[f].v # None
         THEN IF ~IsDocument(data_dict[f].v)
              THEN [H |-> H, ret |-> Raise("AttributeError")]
              ELSE Put(DictFor(H, data_dict[f].v, visibility, ord), data_dict, f)
         ELSE [H |-> H, ret |-> Ret("dict", data_dict)]
    ELSE IF FieldDef(ClassOf(self), f).kind = "List"
            /\ FieldDef(ClassOf(self), f).subfield = "Embedded"
    THEN IF f \notin DOMAIN data_dict
         THEN [H |-> H, ret |-> Raise("KeyError")]
         ELSE IF data_dict[f].v \notin ListIds
         THEN [H |-> H, ret |-> Raise("TypeError")]
         ELSE Put(CallOnEntries([H |-> H, ret |-> Ret("list", <<>>)],
                                H.lists[data_dict[f].v].items, 1, visibility, ord),
                  data_dict, f)
    ELSE [H |-> H, ret |-> Ret("dict", data_dict)]

\* Document._call_for_visibility_on_child(data_dict, fields_list, visibility):
\* r holds data_dict after the fields before the i-th, or what was raised.
CallForVisibilityOnChild(r, self, fields_list, i, visibility, ord) ==
    IF i > Len(fields_list) \/ r.ret.t = "raise" THEN r
    ELSE CallForVisibilityOnChild(
             CallOnChild(r.H, self, r.ret.v, fields_list[i], visibility, ord),
             self, fields_list, i + 1, visibility, ord)

\* property_dict[name] = getattr(self, name), merged into the result r; g is
\* the outcome of the getattr.
PutProperty(r, name, g) ==
    IF g.ret.t = "raise" THEN g
    ELSE [H |-> g.H,
          ret |-> Ret("dict", [k \in DOMAIN r.ret.v \cup {name} |->
                                  IF k = name THEN g.ret ELSE r.ret.v[k]])]

\* The names of fields_list that are not fields, read with getattr and added
\* to the mapping r built from the fields.
RECURSIVE AddProperties(_, _, _, _)
AddProperties(r, self, fields_list, i) ==
    IF i > Len(fields_list) \/ r.ret.t = "raise" THEN r
    ELSE IF fields_list[i] \in Fields(ClassOf(self))
    THEN AddProperties(r, self, fields_list, i + 1)
    ELSE AddProperties(PutProperty(r, fields_list[i],
                                   Getattr(r.H, self, fields_list[i])),
                       self, fields_list, i + 1)

\* self._data.copy(), restricted to the keys of `names`
DataCopy(H, self, names) ==
    [k \in {f \in names : H.data[self][f] # Absent} |-> Ret("val", H.data[self][k])]

\* The names a dict_for_* call works on: every declared field for save, the
\* configured list otherwise.
FieldsList(c, visibility, ord) ==
    IF visibility = "save" THEN ord[c]
    ELSE IF visibility = "public" THEN public_fields(c)
    ELSE owner_fields(c)

Names(seq) == {seq[i] : i \in 1..Len(seq)}

\* The validation a dict_for_* call starts with: validate() in
\* dict_for_save; in _dict_for_fields
\*   if not self._is_valid:
\*       if not self._validate_fields(fields_list, stop_on_required=True): raise
DictValidate(H, self, visibility, ord) ==
    IF visibility = "save" THEN Document_validate(H, self, TRUE, ord)
    ELSE IF ~H.is_valid[self]
    THEN Document_validate_fields(H, self, FieldsList(ClassOf(self), visibility, ord),
                                  TRUE, ord)
    ELSE [H |-> H, ret |-> True]

\* has_filter ... self._apply_filters(self.pre_<visibility>_filter, the_dict)
Filtered(r, c, visibility) ==
    IF r.ret.t = "raise" THEN r
    ELSE [H |-> r.H,
          ret |-> Ret("dict", ApplyFilters(FilterChain(c, visibility), 1, r.ret.v))]

\* What follows the validation v in dict_for_save and in _dict_for_fields:
\* the copy of _data, the calls on the children, the filters.
DictBuild(v, self, visibility, ord) ==
    IF v.ret.t = "raise" THEN v
    ELSE IF ~IsTrue(v.ret) THEN [H |-> v.H, ret |-> Raise("ValidationException")]
    ELSE Filtered(
             AddProperties(
                 CallForVisibilityOnChild(
                     [H |-> v.H,
                      ret |-> Ret("dict",
                          DataCopy(v.H, self,
                              IF visibility = "save" THEN Descriptors(ClassOf(self))
                              ELSE Names(FieldsList(ClassOf(self), visibility, ord))
                                      \cap Fields(ClassOf(self))))],
                     self,
                     IF visibility = "save" THEN ord[ClassOf(self)]
                     ELSE Keep(ord[ClassOf(self)],
                               {f \in Names(FieldsList(ClassOf(self), visibility, ord)) :
                                   f \in Fields(ClassOf(self)) /\ v.H.data[self][f] # Absent}),
                     1, visibility, ord),
                 self,
                 IF visibility = "save" THEN <<>>
                 ELSE FieldsList(ClassOf(self), visibility, ord),
                 1),
             ClassOf(self), visibility)

\* Document.dict_for_save / dict_for_public / dict_for_owner
DictFor(H, self, visibility, ord) ==
    DictBuild(DictValidate(H, self, visibility, ord), self, visibility, ord)

Document_dict_for_save(H, self, ord) == DictFor(H, self, "save", ord)
Document_dict_for_public(H, self, ord) == DictFor(H, self, "public", ord)
Document_dict_for_owner(H, self, ord) == DictFor(H, self, "owner", ord)

\* Document.modified_fields
Document_modified_fields(H, self) == H.modified[self]

\* self._data[good_key]: a name that is no key of _data raises KeyError.
HasKey(H, self, key) ==
    key \in DOMAIN H.data[self] /\ H.data[self][key] # Absent

\* Document.dict_for_modified_fields:
\*   {good_key: self._data[good_key] for good_key in self._modified_fields}
Document_dict_for_modified_fields(H, self) ==
    IF \E good_key \in H.modified[self] : ~HasKey(H, self, good_key)
    THEN [H |-> H, ret |-> Raise("KeyError")]
    ELSE [H |-> H,
          ret |-> Ret("dict", [good_key \in H.modified[self] |->
                                  Ret("val", H.data[self][good_key])])]

\* ------------------------------------------------------------------ inputs
\* The values the callers of this model pass.
TokenKwargs ==
    {[consumer_secret |-> a, active |-> NoArg] : a \in {NoArg, Val("s")}}

ElemArgs == {Dict(k) : k \in TokenKwargs}
                \cup {Val(t) : t \in Tokens \cap docs}

UserKwargs ==
    {[token |-> a, tokens |-> b] :
        a \in {NoArg} \cup {Dict(k) : k \in TokenKwargs}
                \cup {Val(t) : t \in Tokens \cap docs},
        b \in {NoArg, ListOf(<<>>)} \cup {ListOf(<<e>>) : e \in ElemArgs}
                \cup {ListOf(<<Val("i0"), Dict(k)>>) : k \in TokenKwargs}}

NestedUserKwargs ==
    {[token |-> Dict(k), tokens |-> NoArg] : k \in TokenKwargs}
        \cup {[token |-> NoArg, tokens |-> ListOf(<<Dict(k)>>)] : k \in TokenKwargs}

GroupKwargs ==
    {[user |-> a] :
        a \in {NoArg} \cup {Val(u) : u \in Users \cap docs}
                \cup {Dict(k) : k \in NestedUserKwargs}}

\* Account(**values): the canonical name, its alias, both, and a name the
\* model does not know.
AccountKwargs ==
    {[id |-> a, _id |-> b, name |-> n, bad_name |-> x] :
        a \in {NoArg, Val("i3"), Val("s")}, b \in {NoArg, Val("i0")},
        n \in {NoArg, Val("s")}, x \in {NoArg, Val("s")}}

GhostedKwargs == {[id |-> a] : a \in {NoArg, Val("i3")}}

ChildKwargs ==
    {[id |-> a, name |-> n] : a \in {NoArg, Val("i3")}, n \in {NoArg, Val("s")}}

\* Event(**values): nothing, or a count.
EventKwargs ==
    {[creation_date |-> NoArg, count |-> a, tags |-> NoArg] :
        a \in {NoArg, Val("i0")}}

\* Host(**values): nothing, or a level and an address.
HostKwargs ==
    {[level |-> a, ip |-> b, enabled |-> NoArg, port |-> NoArg] :
        a \in {NoArg, Val("i3")}, b \in {NoArg, Val("ip")}}

Kwargs(c) ==
    IF c = "OAuthToken" THEN TokenKwargs
    ELSE IF c = "Host" THEN HostKwargs
    ELSE IF c = "Event" THEN EventKwargs
    ELSE IF c = "User" THEN UserKwargs
    ELSE IF c = "Account" THEN AccountKwargs
    ELSE IF c = "Ghosted" THEN GhostedKwargs
    ELSE IF c = "Child" THEN ChildKwargs
    ELSE GroupKwargs

\* The values assigned to a field through its setter.
SetInputs(c, f) ==
    IF f = "consumer_secret" THEN {"s", "i0"}
    ELSE IF f = "active" THEN {"i0"}
    ELSE IF f = "token" THEN (Tokens \cap docs) \cup {None}
    ELSE IF f = "tokens" THEN {None}
    ELSE IF f = "id" THEN {"i3", "s", None}
    ELSE IF f = "name" THEN {"s", None}
    ELSE IF f = "level" THEN {"s", "i0", "i3", None}
    ELSE IF f = "ip" THEN {"ip", "s", "i0"}
    ELSE IF f = "enabled" THEN {"bT", "i3"}
    ELSE IF f = "port" THEN {"bT", "i3", "f"}
    ELSE IF f = "count" THEN {"i0", None}
    ELSE IF f \in {"creation_date", "tags"} THEN {}
    ELSE (Users \cap docs) \cup {None}

\* The elements passed to the container operations, and the lists of them.
Elems == Tokens \cap docs
SeqsUpTo(S, n) == UNION {[1..m -> S] : m \in 0..n}

\* ------------------------------------------------------------------- calls
\* No document constructed yet; the run creates the documents of `objects`.
InitObjects(objects) ==
    /\ docs = {}
    /\ data = [d \in DocIds |-> [f \in Descriptors(ClassOf(d)) |-> Absent]]
    /\ modified_fields = [d \in DocIds |-> {}]
    /\ is_valid = [d \in DocIds |-> FALSE]
    /\ parent = [d \in DocIds |-> None]
    /\ parent_field_name = [d \in DocIds |-> None]
    /\ lists = [l \in ListIds |-> NoList]
    /\ default_list = <<>>
    /\ utcnow_calls = 0
    /\ pool = objects

\* The same, no mapping passed to rename_field yet.
InitWith(objects) == InitObjects(objects) /\ the_dict = <<>>

Init == InitWith({"t1", "u1", "g1"})

\* Model(**values): the heap after the constructor has run on a new object.
New(H, c, values) == Document_init(H, FreshDoc(H, c), None, None, values)

\* d = Model(**values)
Construct(c, values) ==
    /\ FreeDocs(Heap, c) # {}
    /\ ~New(Heap, c, values).oom
    /\ SetHeap(Collect(New(Heap, c, values)))

\* setattr(self, f, value): the __set__ of the field's class
Field_set(H, self, f, value) ==
    IF FieldDef(ClassOf(self), f).kind = "Embedded"
    THEN EmbeddedDocumentField_set(H, self, f, value)
    ELSE IF FieldDef(ClassOf(self), f).kind = "List"
    THEN ListField_set_scalar(H, self, f, value)
    ELSE BaseField_set(H, self, f, value)

\* self.f = value
SetField(self, f, value) == SetHeap(Collect(Field_set(Heap, self, f, value)))

\* self.f = [ ... ]  (a list field assigned a plain Python list)
SetList(self, f, seq) == SetHeap(Collect(ListField_set_seq(Heap, self, f, seq)))

\* self.f
GetField(self, f) == SetHeap(Field_get(Heap, self, f).H)

Validate(self, ord) == SetHeap(Document_validate(Heap, self, TRUE, ord).H)

ValidatePartial(self, ord) == SetHeap(Document_validate_partial(Heap, self, ord).H)

DictForSave(self, ord) == SetHeap(Document_dict_for_save(Heap, self, ord).H)

DictForPublic(self, ord) == SetHeap(Document_dict_for_public(Heap, self, ord).H)

DictForOwner(self, ord) == SetHeap(Document_dict_for_owner(Heap, self, ord).H)

\* The calls on the container stored in self.f, each with the arguments it
\* can take here: a list never grows beyond MaxListLen.
ListFields == {"tokens"}
Indexes == 0..MaxListLen
HoldsList(self, f) == data[self][f] \in ListIds
Items(self, f) == lists[data[self][f]].items
Room(self, f, n) == Len(Items(self, f)) + n <= MaxListLen

CanAppend(self, f) == HoldsList(self, f) /\ Room(self, f, 1)
CanInsert(self, f, index) == CanAppend(self, f) /\ index <= Len(Items(self, f))
CanIndex(self, f, key) == HoldsList(self, f) /\ key <= Len(Items(self, f))
CanExtend(self, f, seq) == HoldsList(self, f) /\ Room(self, f, Len(seq))
CanSlice(self, f, i, j) == HoldsList(self, f) /\ i <= j /\ j <= Len(Items(self, f))
CanSetSlice(self, f, i, j, seq) ==
    CanSlice(self, f, i, j) /\ Room(self, f, Len(seq) - (j - i))
CanPop(self, f, args) ==
    HoldsList(self, f) /\ (IF args = <<>> THEN TRUE ELSE args[1] <= Len(Items(self, f)))
PopArgs == {<<>>} \cup {<<i>> : i \in Indexes}

ListAppend(self, f, obj) ==
    /\ CanAppend(self, f)
    /\ SetHeap(Collect(NPL_append(Heap, data[self][f], obj).H))

ListInsert_(self, f, index, obj) ==
    /\ CanInsert(self, f, index)
    /\ SetHeap(Collect(NPL_insert(Heap, data[self][f], index, obj).H))

ListSetItem(self, f, key, value) ==
    /\ CanIndex(self, f, key)
    /\ SetHeap(Collect(NPL_setitem(Heap, data[self][f], key, value).H))

ListDelItem(self, f, key) ==
    /\ CanIndex(self, f, key)
    /\ SetHeap(Collect(NPL_delitem(Heap, data[self][f], key).H))

ListRemove(self, f, value) ==
    /\ HoldsList(self, f)
    /\ SetHeap(Collect(NPL_remove(Heap, data[self][f], value).H))

ListExtend(self, f, iterable) ==
    /\ CanExtend(self, f, iterable)
    /\ SetHeap(Collect(NPL_extend(Heap, data[self][f], iterable).H))

ListAdd(self, f, other) ==
    /\ CanExtend(self, f, other)
    /\ SetHeap(Collect(NPL_add(Heap, data[self][f], other).H))

ListSetSlice_(self, f, i, j, seq) ==
    /\ CanSetSlice(self, f, i, j, seq)
    /\ SetHeap(Collect(NPL_setslice(Heap, data[self][f], i, j, seq).H))

ListDelSlice(self, f, i, j) ==
    /\ CanSlice(self, f, i, j)
    /\ SetHeap(Collect(NPL_delslice(Heap, data[self][f], i, j).H))

ListPop(self, f, args) ==
    /\ CanPop(self, f, args)
    /\ SetHeap(Collect(NPL_pop(Heap, data[self][f], args).H))

Classes == {"OAuthToken", "User", "Group"}
ArgSeqs == SeqsUpTo(Elems, MaxArgLen)

Next ==
    \/ \E c \in Classes : \E values \in Kwargs(c) : Construct(c, values)
    \/ \E self \in docs : \E f \in Fields(ClassOf(self)) :
          \E value \in SetInputs(ClassOf(self), f) : SetField(self, f, value)
    \/ \E self \in docs : \E f \in Fields(ClassOf(self)) \cap ListFields :
          \E seq \in SeqsUpTo(Elems, MaxListLen) : SetList(self, f, seq)
    \/ \E self \in docs : \E f \in Fields(ClassOf(self)) : GetField(self, f)
    \/ \E self \in docs : \E ord \in Orders : Validate(self, ord)
    \/ \E self \in docs : \E ord \in Orders : ValidatePartial(self, ord)
    \/ \E self \in docs : \E ord \in Orders : DictForSave(self, ord)
    \/ \E self \in docs : \E ord \in Orders : DictForPublic(self, ord)
    \/ \E self \in docs : \E ord \in Orders : DictForOwner(self, ord)
    \/ \E self \in docs : \E f \in Fields(ClassOf(self)) \cap ListFields :
          \E obj \in Elems : ListAppend(self, f, obj)
    \/ \E self \in docs : \E f \in Fields(ClassOf(self)) \cap ListFields :
          \E index \in Indexes : \E obj \in Elems : ListInsert_(self, f, index, obj)
    \/ \E self \in docs : \E f \in Fields(ClassOf(self)) \cap ListFields :
          \E key \in Indexes : \E value \in Elems : ListSetItem(self, f, key, value)
    \/ \E self \in docs : \E f \in Fields(ClassOf(self)) \cap ListFields :
          \E key \in Indexes : ListDelItem(self, f, key)
    \/ \E self \in docs : \E f \in Fields(ClassOf(self)) \cap ListFields :
          \E value \in Elems : ListRemove(self, f, value)
    \/ \E self \in docs : \E f \in Fields(ClassOf(self)) \cap ListFields :
          \E iterable \in ArgSeqs : ListExtend(self, f, iterable)
    \/ \E self \in docs : \E f \in Fields(ClassOf(self)) \cap ListFields :
          \E other \in ArgSeqs : ListAdd(self, f, other)
    \/ \E self \in docs : \E f \in Fields(ClassOf(self)) \cap ListFields :
          \E i \in Indexes : \E j \in Indexes : \E seq \in ArgSeqs :
              ListSetSlice_(self, f, i, j, seq)
    \/ \E self \in docs : \E f \in Fields(ClassOf(self)) \cap ListFields :
          \E i \in Indexes : \E j \in Indexes : ListDelSlice(self, f, i, j)
    \/ \E self \in docs : \E f \in Fields(ClassOf(self)) \cap ListFields :
          \E args \in PopArgs : ListPop(self, f, args)

Spec == Init /\ [][Next]_vars

\* The flat schema: aliases, properties, a listed name that does not exist,
\* and a subclass of a model.
FlatClasses == {"Account", "Ghosted", "Child"}
AttrNames(c) == Descriptors(c) \cup DOMAIN Properties(c) \cup DOMAIN AliasesDict(c)

InitFlat == InitWith({"a1", "x1", "c1"})

\* self.name, for a field, a property or an alias
GetAttr(self, name) == SetHeap(Getattr(Heap, self, name).H)

NextFlat ==
    \/ \E c \in FlatClasses : \E values \in Kwargs(c) : Construct(c, values)
    \/ \E self \in docs : \E f \in Descriptors(ClassOf(self)) :
          \E value \in SetInputs(ClassOf(self), f) : SetField(self, f, value)
    \/ \E self \in docs : \E name \in AttrNames(ClassOf(self)) : GetAttr(self, name)
    \/ \E self \in docs : \E ord \in Orders : Validate(self, ord)
    \/ \E self \in docs : \E ord \in Orders : ValidatePartial(self, ord)
    \/ \E self \in docs : \E ord \in Orders : DictForSave(self, ord)
    \/ \E self \in docs : \E ord \in Orders : DictForPublic(self, ord)
    \/ \E self \in docs : \E ord \in Orders : DictForOwner(self, ord)

SpecFlat == InitFlat /\ [][NextFlat]_vars

\* Cascade construction: a user built from mappings, from tokens that exist
\* and from values that are neither, in lists of up to MaxListLen elements.
CascadeElems ==
    {Val("i0")} \cup {Dict(k) : k \in TokenKwargs} \cup {Val(t) : t \in Tokens \cap docs}

CascadeUserKwargs ==
    {[token |-> a, tokens |-> b] :
        a \in {NoArg, Val("i0")} \cup {Dict(k) : k \in TokenKwargs}
                \cup {Val(t) : t \in Tokens \cap docs},
        b \in {NoArg} \cup {ListOf(seq) : seq \in SeqsUpTo(CascadeElems, MaxListLen)}}

CascadeKwargs(c) ==
    IF c = "User" THEN CascadeUserKwargs ELSE Kwargs(c)

InitCascade == InitWith({"t1", "t2", "u1", "g1"})

NextCascade ==
    \/ \E c \in Classes : \E values \in CascadeKwargs(c) : Construct(c, values)
    \/ \E self \in docs : \E f \in Fields(ClassOf(self)) : GetField(self, f)
    \/ \E self \in docs : \E ord \in Orders : Validate(self, ord)
    \/ \E self \in docs : \E ord \in Orders : DictForSave(self, ord)

SpecCascade == InitCascade /\ [][NextCascade]_vars

\* Two users and a token: a document built inside one holder and then put
\* in the list of another.
ShareClasses == {"OAuthToken", "User"}
InitShare == InitWith({"t1", "u1", "u2"})

\* User(token={...}) or User(); OAuthToken(**values) as elsewhere.
ShareKwargs(c) ==
    IF c = "User"
    THEN {[token |-> a, tokens |-> NoArg] :
            a \in {NoArg} \cup {Dict(k) : k \in TokenKwargs}}
    ELSE Kwargs(c)

DictForModifiedFields(self) ==
    SetHeap(Document_dict_for_modified_fields(Heap, self).H)

NextShare ==
    \/ \E c \in ShareClasses : \E values \in ShareKwargs(c) : Construct(c, values)
    \/ \E self \in docs : \E f \in Fields(ClassOf(self)) :
          \E value \in SetInputs(ClassOf(self), f) : SetField(self, f, value)
    \/ \E self \in docs : \E f \in Fields(ClassOf(self)) \cap ListFields :
          \E seq \in SeqsUpTo(Elems, MaxArgLen) : SetList(self, f, seq)
    \/ \E self \in docs : \E ord \in Orders : ValidatePartial(self, ord)
    \/ \E self \in docs : DictForModifiedFields(self)

SpecShare == InitShare /\ [][NextShare]_vars

\* Two users and a token: a container read from one user and assigned to the
\* other, and a token that moves between them.
InitOwner == InitWith({"t1", "u1", "u2"})

\* self.f = other.f  (the value is the container of other.f)
AssignList(self, f, other) ==
    /\ HoldsList(other, f)
    /\ SetHeap(Collect(ListField_set_container(Heap, self, f, data[other][f])))

NextOwner ==
    \/ \E c \in ShareClasses : \E values \in ShareKwargs(c) : Construct(c, values)
    \/ \E self \in docs : \E f \in Fields(ClassOf(self)) :
          \E value \in SetInputs(ClassOf(self), f) : SetField(self, f, value)
    \/ \E self \in docs : \E f \in Fields(ClassOf(self)) \cap ListFields :
          GetField(self, f)
    \/ \E self \in docs : \E f \in Fields(ClassOf(self)) \cap ListFields :
          \E other \in docs \cap Users : AssignList(self, f, other)
    \/ \E self \in docs : \E f \in Fields(ClassOf(self)) \cap ListFields :
          \E obj \in Elems : ListAppend(self, f, obj)
    \/ \E self \in docs : \E f \in Fields(ClassOf(self)) \cap ListFields :
          \E args \in PopArgs : ListPop(self, f, args)

SpecOwner == InitOwner /\ [][NextOwner]_vars

\* Two users and a token, and containers that are handed any document, a
\* user included.
InitCycle == InitWith({"t1", "u1", "u2"})

\* append(p_object) returns: the loop of _notify_parents, entered after
\* p_object was tagged, is left.
AppendReturns(H, l, p_object) ==
    WalkEnds(TagObj(H, l, p_object), H.lists[l]._parent, Cardinality(DocIds))

\* self.f.append(obj) for any document obj; a call that does not return has
\* no state after it.
AppendDocument(self, f, obj) ==
    /\ CanAppend(self, f)
    /\ AppendReturns(Heap, data[self][f], obj)
    /\ SetHeap(Collect(NPL_append(Heap, data[self][f], obj).H))

NextCycle ==
    \/ \E c \in ShareClasses : \E values \in ShareKwargs(c) : Construct(c, values)
    \/ \E self \in docs \cap Users : \E value \in SetInputs("User", "token") :
          SetField(self, "token", value)
    \/ \E self \in docs : \E f \in Fields(ClassOf(self)) \cap ListFields :
          GetField(self, f)
    \/ \E self \in docs : \E f \in Fields(ClassOf(self)) \cap ListFields :
          \E obj \in docs : AppendDocument(self, f, obj)

SpecCycle == InitCycle /\ [][NextCycle]_vars

\* The scalar predicates, the choices and the filter chains: one host.
InitTypes == InitWith({"h1"})

NextTypes ==
    \/ \E values \in Kwargs("Host") : Construct("Host", values)
    \/ \E self \in docs : \E f \in Fields(ClassOf(self)) :
          \E value \in SetInputs(ClassOf(self), f) : SetField(self, f, value)
    \/ \E self \in docs : \E ord \in Orders : Validate(self, ord)
    \/ \E self \in docs : \E ord \in Orders : ValidatePartial(self, ord)
    \/ \E self \in docs : \E ord \in Orders : DictForSave(self, ord)
    \/ \E self \in docs : \E ord \in Orders : DictForPublic(self, ord)
    \/ \E self \in docs : \E ord \in Orders : DictForOwner(self, ord)

SpecTypes == InitTypes /\ [][NextTypes]_vars

\* rename_field on its own: any mapping of up to four names, renamed again
\* and again.
FilterNames == {"id", "_id", "name", "label"}
FilterValues == {"i3", "i42", "s"}
Mappings ==
    UNION {[keys -> FilterValues] : keys \in SUBSET FilterNames}

InitRename ==
    /\ InitObjects({})
    /\ the_dict \in Mappings

\* the_dict = rename_field(old_name, new_name, the_dict)
RenameField(old_name, new_name) ==
    /\ the_dict' = rename_field(old_name, new_name, the_dict)
    /\ UNCHANGED <<docs, data, modified_fields, is_valid, parent,
                   parent_field_name, lists, default_list, utcnow_calls, pool>>

NextRename ==
    \E old_name \in FilterNames : \E new_name \in FilterNames :
        RenameField(old_name, new_name)

SpecRename == InitRename /\ [][NextRename]_vars

\* Defaults: two events, their fields read, written, validated and saved,
\* and the list read from tags appended to.
InitDefaults == InitWith({"e1", "e2"})

\* self.f.append(obj) where self.f answers a plain Python list: the read,
\* then list.append on the object read.
list_append(H, self, f, obj) ==
    LET g == Field_get(H, self, f)
    IN IF g.value = PlainList
       THEN [g.H EXCEPT !.default_list = Append(@, obj)]
       ELSE g.H

PlainListAppend(self, f, obj) ==
    /\ Field_get(Heap, self, f).value = PlainList
    /\ Len(default_list) < MaxListLen
    /\ SetHeap(list_append(Heap, self, f, obj))

NextDefaults ==
    \/ \E values \in Kwargs("Event") : Construct("Event", values)
    \/ \E self \in docs : \E f \in Fields(ClassOf(self)) :
          \E value \in SetInputs(ClassOf(self), f) : SetField(self, f, value)
    \/ \E self \in docs : \E f \in Fields(ClassOf(self)) :
          ~Field_get(Heap, self, f).H.oom /\ GetField(self, f)
    \/ \E self \in docs : \E ord \in Orders :
          ~Document_validate(Heap, self, TRUE, ord).H.oom /\ Validate(self, ord)
    \/ \E self \in docs : \E ord \in Orders :
          ~Document_dict_for_save(Heap, self, ord).H.oom /\ DictForSave(self, ord)
    \/ \E self \in docs : PlainListAppend(self, "tags", "s")

SpecDefaults == InitDefaults /\ [][NextDefaults]_vars

\* ------------------------------------------------------- reference notions
\* The value a field holds for validation: the stored one, or the default.
Stored(H, d, f) ==
    IF DataGet(H, d, f) = None THEN FieldDef(ClassOf(d), f).default
    ELSE DataGet(H, d, f)

\* The from-scratch strict check of a document: every declared field against
\* the value it holds now, descending into embedded documents and into the
\* elements of lists, reading no cache and changing nothing.
RECURSIVE StrictOK(_, _)
ValueOK(H, field, v) ==
    IF field.kind = "String" THEN v = "s"
    ELSE IF field.kind = "Boolean" THEN v \in {"bT", "bF"}
    ELSE IF field.kind = "Integer" THEN v \in IntValues
    ELSE IF field.kind = "Embedded"
    THEN v \in InstancesOf(field.field_type) /\ StrictOK(H, v)
    ELSE /\ v \in ListIds
         /\ (field.max_length # 0 => Len(H.lists[v].items) <= field.max_length)
         /\ (field.min_length # 0 => Len(H.lists[v].items) >= field.min_length)
         /\ \A i \in 1..Len(H.lists[v].items) :
               /\ H.lists[v].items[i] \in InstancesOf(field.field_type)
               /\ StrictOK(H, H.lists[v].items[i])

StrictOK(H, d) ==
    \A f \in Fields(ClassOf(d)) :
        IF Stored(H, d, f) = None THEN ~FieldDef(ClassOf(d), f).is_required
        ELSE ValueOK(H, FieldDef(ClassOf(d), f), Stored(H, d, f))

\* The documents the storage of field f of d holds: the embedded document,
\* or the documents among the elements of the list.
Children(H, d, f) ==
    IF H.data[d][f] \in DocIds THEN {H.data[d][f]}
    ELSE IF H.data[d][f] \in ListIds
    THEN {H.lists[H.data[d][f]].items[i] : i \in 1..Len(H.lists[H.data[d][f]].items)}
            \cap DocIds
    ELSE {}

\* e is d or is held, at any depth, by the storage of d.
RECURSIVE Holds(_, _, _)
Holds(H, d, e) ==
    d = e \/ \E f \in Fields(ClassOf(d)) : \E c \in Children(H, d, f) : Holds(H, c, e)

\* e is reachable from d through field f of d.
ReachableVia(H, d, f, e) == \E c \in Children(H, d, f) : Holds(H, c, e)

\* d and the documents on its parent chain.
RECURSIVE ChainFrom(_, _, _)
ChainFrom(H, d, fuel) ==
    IF H.parent[d] = None \/ fuel = 0 THEN {d}
    ELSE {d} \cup ChainFrom(H, H.parent[d], fuel - 1)
ParentChain(H, d) == ChainFrom(H, d, Cardinality(DocIds))

\* P holds of the outcome of every call Next makes on the container of self.f.
ForAllContainerCalls(P(_), self, f) ==
    /\ \A obj \in Elems :
          CanAppend(self, f) => P(NPL_append(Heap, data[self][f], obj))
    /\ \A index \in Indexes : \A obj \in Elems :
          CanInsert(self, f, index) => P(NPL_insert(Heap, data[self][f], index, obj))
    /\ \A key \in Indexes : \A value \in Elems :
          CanIndex(self, f, key) => P(NPL_setitem(Heap, data[self][f], key, value))
    /\ \A key \in Indexes :
          CanIndex(self, f, key) => P(NPL_delitem(Heap, data[self][f], key))
    /\ \A value \in Elems :
          HoldsList(self, f) => P(NPL_remove(Heap, data[self][f], value))
    /\ \A iterable \in ArgSeqs :
          CanExtend(self, f, iterable) => P(NPL_extend(Heap, data[self][f], iterable))
    /\ \A other \in ArgSeqs :
          CanExtend(self, f, other) => P(NPL_add(Heap, data[self][f], other))
    /\ \A i \in Indexes : \A j \in Indexes : \A seq \in ArgSeqs :
          CanSetSlice(self, f, i, j, seq)
              => P(NPL_setslice(Heap, data[self][f], i, j, seq))
    /\ \A i \in Indexes : \A j \in Indexes :
          CanSlice(self, f, i, j) => P(NPL_delslice(Heap, data[self][f], i, j))
    /\ \A args \in PopArgs :
          CanPop(self, f, args) => P(NPL_pop(Heap, data[self][f], args))

\* -------------------------------------------------------------- properties
\* C1: in every reachable state, strict validate() of a document returns True
\* exactly when the from-scratch strict check of the document succeeds: the
\* memoized result is never stale.
C1_CacheNeverStale ==
    \A d \in docs : \A ord \in Orders :
        IsTrue(Document_validate(Heap, d, TRUE, ord).ret) <=> StrictOK(Heap, d)

\* C2: after a setter write to a field of a document, and after a mutating
\* call on the container of a list field, the cached validity of the written
\* (owning) document and of every document on its parent chain is false.
C2_WriteClearsCaches ==
    \A self \in docs : \A f \in Fields(ClassOf(self)) :
        /\ \A value \in SetInputs(ClassOf(self), f) :
              \A a \in ParentChain(Field_set(Heap, self, f, value), self) :
                 ~Field_set(Heap, self, f, value).is_valid[a]
        /\ f \in ListFields =>
              LET Cleared(r) ==
                      r.ret.t # "raise" =>
                          \A a \in ParentChain(r.H, self) : ~r.H.is_valid[a]
              IN ForAllContainerCalls(Cleared, self, f)

\* C3: a setter write to a field of a document e adds, to the modified set of
\* every document d that holds e at any depth, the name of the field of d
\* through which e is reachable.
C3_NestedWriteMarksHolders ==
    \A e \in docs : \A g \in Fields(ClassOf(e)) :
        \A value \in SetInputs(ClassOf(e), g) :
            \A d \in docs \ {e} : \A f \in Fields(ClassOf(d)) :
                ReachableVia(Heap, d, f, e)
                    => f \in Field_set(Heap, e, g, value).modified[d]

\* C4: a mutating call on the container of list field f of d that returns
\* adds f to the modified set of d and, to the modified set of every document
\* that holds d, the name of the field through which it holds d.
C4_ContainerCallMarks ==
    \A self \in docs : \A f \in Fields(ClassOf(self)) \cap ListFields :
        LET Marked(r) ==
                r.ret.t # "raise" =>
                    /\ f \in r.H.modified[self]
                    /\ \A d \in docs \ {self} : \A g \in Fields(ClassOf(d)) :
                          ReachableVia(Heap, d, g, self) => g \in r.H.modified[d]
        IN ForAllContainerCalls(Marked, self, f)

\* C5: the constructor leaves the modified set of the document it builds, and
\* of every nested document it creates, empty; a setter write to a declared
\* field f puts f in the modified set of the document written.
C5_FreshUnmodifiedSetMarks ==
    /\ \A c \in Classes : \A values \in Kwargs(c) :
          (FreeDocs(Heap, c) # {} /\ ~New(Heap, c, values).oom)
              => \A d \in New(Heap, c, values).docs \ docs :
                    New(Heap, c, values).modified[d] = {}
    /\ \A self \in docs : \A f \in Fields(ClassOf(self)) :
          /\ \A value \in SetInputs(ClassOf(self), f) :
                f \in Field_set(Heap, self, f, value).modified[self]
          /\ f \in ListFields =>
                \A seq \in SeqsUpTo(Elems, MaxListLen) :
                    f \in ListField_set_seq(Heap, self, f, seq).modified[self]

\* A document built by the constructor together with a nested document, both
\* unmodified, and a document written through a setter.
C5_Witness ==
    \E d \in docs : \E e \in docs : \E w \in docs :
        /\ parent[e] = d
        /\ modified_fields[d] = {} /\ modified_fields[e] = {}
        /\ \E f \in Fields(ClassOf(w)) :
              f \in modified_fields[w] /\ data[w][f] # Absent

\* C6: a document with a required field unset and every other field unset or
\* holding a value that passes the from-scratch check fails validate() and
\* passes validate_partial(); validate_partial() returns False whenever some
\* field holds a value that fails the from-scratch check.
RequiredUnset(H, d) ==
    /\ \E f \in Fields(ClassOf(d)) :
          FieldDef(ClassOf(d), f).is_required /\ Stored(H, d, f) = None
    /\ \A f \in Fields(ClassOf(d)) :
          Stored(H, d, f) # None => ValueOK(H, FieldDef(ClassOf(d), f), Stored(H, d, f))

HoldsInvalid(H, d) ==
    \E f \in Fields(ClassOf(d)) :
        Stored(H, d, f) # None /\ ~ValueOK(H, FieldDef(ClassOf(d), f), Stored(H, d, f))

C6_RequiredAndPartial ==
    \A d \in docs : \A ord \in Orders :
        /\ RequiredUnset(Heap, d) =>
              /\ Document_validate(Heap, d, TRUE, ord).ret = False
              /\ Document_validate_partial(Heap, d, ord).ret = True
        /\ HoldsInvalid(Heap, d) =>
              Document_validate_partial(Heap, d, ord).ret = False

\* C7: dict_for_save() of a document that fails the from-scratch strict check
\* raises ValidationException.
C7_SaveOfInvalidRaises ==
    \A d \in docs : \A ord \in Orders :
        ~StrictOK(Heap, d) =>
            /\ Document_dict_for_save(Heap, d, ord).ret.t = "raise"
            /\ Document_dict_for_save(Heap, d, ord).ret.v = "ValidationException"

\* A rendered value holds no document, and no container of documents, at any
\* depth.
RECURSIVE Plain(_, _)
Plain(H, x) ==
    IF x.t = "dict" THEN \A k \in DOMAIN x.v : Plain(H, x.v[k])
    ELSE IF x.t = "list" THEN \A i \in 1..Len(x.v) : Plain(H, x.v[i])
    ELSE x.v \notin DocIds /\ x.v \notin ListIds

\* The mappings dict_for_save() returns for the documents of a list.
SavedEntries(H, items, ord) ==
    [i \in 1..Len(items) |-> Document_dict_for_save(H, items[i], ord).ret]

\* C8: the mapping dict_for_save() returns for a valid document holds no
\* document at any depth: where storage holds an embedded document the mapping
\* holds that document's dict_for_save() mapping, and where storage holds a
\* list of documents it holds the list of their dict_for_save() mappings.
C8_SaveHoldsNoDocument ==
    \A d \in docs : \A ord \in Orders :
        LET saved == Document_dict_for_save(Heap, d, ord).ret
        IN (StrictOK(Heap, d) /\ saved.t = "dict")
              => /\ Plain(Heap, saved)
                 /\ FilterChain(ClassOf(d), "save") = <<>> =>
                       \A f \in Fields(ClassOf(d)) :
                          /\ data[d][f] \in DocIds
                                => saved.v[f]
                                      = Document_dict_for_save(Heap, data[d][f], ord).ret
                          /\ data[d][f] \in ListIds
                                => saved.v[f]
                                      = Ret("list", SavedEntries(Heap,
                                                       lists[data[d][f]].items, ord))

\* A valid, validated document that holds an embedded document and a list of
\* them, and that dict_for_save() renders.
C8_Witness ==
    \E d \in docs : \E ord \in Orders :
        /\ StrictOK(Heap, d) /\ is_valid[d]
        /\ \E f \in Fields(ClassOf(d)) : data[d][f] \in DocIds
        /\ \E f \in Fields(ClassOf(d)) :
              data[d][f] \in ListIds /\ Len(lists[data[d][f]].items) > 0
        /\ Document_dict_for_save(Heap, d, ord).ret.t = "dict"

\* C9: dict_for_save() of a document that passes the strict check, with no
\* filter configured, returns a mapping whose keys are exactly the declared
\* fields that hold a value: a field never assigned is omitted without error.
C9_SaveKeysArePresentFields ==
    \A d \in docs : \A ord \in Orders :
        (StrictOK(Heap, d) /\ FilterChain(ClassOf(d), "save") = <<>>)
            => /\ Document_dict_for_save(Heap, d, ord).ret.t = "dict"
               /\ DOMAIN Document_dict_for_save(Heap, d, ord).ret.v
                     = {f \in Fields(ClassOf(d)) : Stored(Heap, d, f) # None}

\* C10: a dict_for_* call leaves every container as it is and every stored
\* value in place, but for an unset field that takes its default; after it
\* every field reads as before and the same call returns the same result.
C10_DictForKeepsStorage ==
    \A d \in docs : \A visibility \in {"save", "public", "owner"} : \A ord \in Orders :
        LET first == DictFor(Heap, d, visibility, ord)
            again == DictFor(first.H, d, visibility, ord)
        IN /\ first.H.lists = lists
           /\ \A x \in docs : \A f \in Fields(ClassOf(x)) :
                 /\ first.H.data[x][f] # data[x][f]
                       => /\ data[x][f] \in {Absent, None}
                          /\ FieldDef(ClassOf(x), f).default # None
                          /\ first.H.data[x][f] = FieldDef(ClassOf(x), f).default
                 /\ Field_get(first.H, x, f).value = Field_get(Heap, x, f).value
           /\ again.ret.t = first.ret.t
           /\ again.ret.v = first.ret.v

\* A document whose embedded document and list elements are still documents
\* in storage after a dict_for_save() that renamed a key of its result and
\* materialized a default.
C10_Witness ==
    \E g \in docs : \E u \in docs : \E t \in docs :
        /\ FilterChain(ClassOf(g), "save") # <<>>
        /\ is_valid[g] /\ data[g]["user"] = u
        /\ is_valid[u] /\ data[u]["token"] = t
        /\ data[t]["active"] = "bT"

\* The names a model lists for a visibility.
Listed(c, visibility) ==
    Names(IF visibility = "public" THEN public_fields(c) ELSE owner_fields(c))

\* C11: dict_for_public() and dict_for_owner() answer the empty mapping when
\* the model lists no names.  Otherwise a listed field that holds nothing is
\* left out: it does not make the call fail (a call fails only on a failed
\* validation or on an unknown listed name), and a call that returns has as
\* keys exactly the listed fields that hold a value and the listed properties,
\* none of them with the value None.
C11_VisibleKeys ==
    \A d \in docs : \A visibility \in {"public", "owner"} : \A ord \in Orders :
        LET r == DictFor(Heap, d, visibility, ord).ret
            listed == Listed(ClassOf(d), visibility)
        IN /\ listed = {} => r.t = "dict" /\ r.v = <<>>
           /\ r.t = "raise" => r.v \in {"ValidationException", "KeyError"}
           /\ r.t = "dict" =>
                 DOMAIN r.v = {f \in listed \cap Fields(ClassOf(d)) :
                                   Stored(Heap, d, f) # None}
                              \cup (listed \cap DOMAIN Properties(ClassOf(d)))

\* Every listed field of d passes the strict check: a field that holds nothing
\* is not required, a field that holds a value holds a valid one.
ListedPass(H, d, visibility) ==
    \A f \in Listed(ClassOf(d), visibility) \cap Fields(ClassOf(d)) :
        IF Stored(H, d, f) = None THEN ~FieldDef(ClassOf(d), f).is_required
        ELSE ValueOK(H, FieldDef(ClassOf(d), f), Stored(H, d, f))

\* Every listed name is a field or a readable attribute.
ListedKnown(c, visibility) ==
    Listed(c, visibility) \subseteq Descriptors(c) \cup DOMAIN Properties(c)

\* C12: on a document that is not known valid, dict_for_public() and
\* dict_for_owner() validate exactly the listed names: the call raises
\* ValidationException when a listed field is required and unset or holds an
\* invalid value, and it returns when every listed field passes, whatever the
\* fields outside the list hold.
C12_ListedValidation ==
    \A d \in docs : \A visibility \in {"public", "owner"} : \A ord \in Orders :
        ~is_valid[d] /\ ListedKnown(ClassOf(d), visibility) =>
            LET r == DictFor(Heap, d, visibility, ord).ret
            IN IF ListedPass(Heap, d, visibility) THEN r.t = "dict"
               ELSE r.t = "raise" /\ r.v = "ValidationException"

\* x, an entry of a returned mapping, is the mapping the nested document e
\* returns for the visibility by itself.
OwnMapping(H, x, e, visibility, ord) ==
    LET own == DictFor(H, e, visibility, ord).ret
    IN x.t = "dict" /\ own.t = "dict" /\ x.v = own.v

\* x, an entry of the mapping dict_for_save() returned, shows field g of the
\* nested document.
SaveShows(x, g) == x.t = "dict" /\ g \in DOMAIN x.v

\* C13: in the mapping dict_for_public() (dict_for_owner()) returns, an
\* embedded document is the mapping its own dict_for_public()
\* (dict_for_owner()) returns and a list of documents is the list of theirs,
\* so that no field outside the nested model's list shows; dict_for_save() of
\* the same document shows every field the nested documents hold.
C13_NestedVisibility ==
    \A d \in docs : \A visibility \in {"public", "owner"} : \A ord \in Orders :
        LET shown == DictFor(Heap, d, visibility, ord).ret
            saved == DictFor(Heap, d, "save", ord).ret
        IN shown.t = "dict" =>
              \A f \in DOMAIN shown.v \cap Fields(ClassOf(d)) :
                 /\ data[d][f] \in DocIds =>
                       /\ OwnMapping(Heap, shown.v[f], data[d][f], visibility, ord)
                       /\ DOMAIN shown.v[f].v
                             \subseteq Listed(ClassOf(data[d][f]), visibility)
                       /\ saved.t = "dict" =>
                             \A g \in Fields(ClassOf(data[d][f])) :
                                Stored(Heap, data[d][f], g) # None
                                   => SaveShows(saved.v[f], g)
                 /\ data[d][f] \in ListIds =>
                       /\ shown.v[f].t = "list"
                       /\ Len(shown.v[f].v) = Len(lists[data[d][f]].items)
                       /\ \A i \in 1..Len(lists[data[d][f]].items) :
                             LET e == lists[data[d][f]].items[i]
                             IN /\ OwnMapping(Heap, shown.v[f].v[i], e, visibility, ord)
                                /\ DOMAIN shown.v[f].v[i].v
                                      \subseteq Listed(ClassOf(e), visibility)
                                /\ saved.t = "dict" =>
                                      \A g \in Fields(ClassOf(e)) :
                                         Stored(Heap, e, g) # None
                                            => SaveShows(saved.v[f].v[i], g)

\* A user holding an embedded token and a list of tokens, the tokens holding
\* a value in a field outside their owner list, and dict_for_owner() and
\* dict_for_save() both returning.
C13_Witness ==
    \E d \in docs : \E ord \in Orders :
        /\ ClassOf(d) = "User"
        /\ data[d]["token"] \in DocIds
        /\ data[data[d]["token"]]["active"] \notin {Absent, None}
        /\ data[d]["tokens"] \in ListIds
        /\ Len(lists[data[d]["tokens"]].items) > 0
        /\ DictFor(Heap, d, "owner", ord).ret.t = "dict"
        /\ DictFor(Heap, d, "public", ord).ret.t = "dict"
        /\ DictFor(Heap, d, "save", ord).ret.t = "dict"

\* C14: a listed name that is a property shows in the returned mapping with
\* the property's value; on a model with a listed name that is neither a field
\* nor a readable attribute dict_for_public() and dict_for_owner() raise
\* KeyError, in every state of the document.
C14_PropertiesAndUnknownNames ==
    \A d \in docs : \A visibility \in {"public", "owner"} : \A ord \in Orders :
        LET r == DictFor(Heap, d, visibility, ord).ret
        IN /\ r.t = "dict" =>
                 \A n \in Listed(ClassOf(d), visibility) \cap DOMAIN Properties(ClassOf(d)) :
                    /\ n \in DOMAIN r.v
                    /\ r.v[n].t = "val"
                    /\ r.v[n].v = Properties(ClassOf(d))[n]
           /\ ~ListedKnown(ClassOf(d), visibility) =>
                 r.t = "raise" /\ r.v = "KeyError"

\* The keywords a constructor call supplies, and those among them that
\* resolve to the field f.
Supplied(values) == {k \in DOMAIN values : ArgKind(values[k]) # "absent"}
SuppliedFor(c, values, f) == {k \in Supplied(values) : get_real_field(c, k) = f}

\* C15: Model(**values) stores every supplied value under the canonical field
\* name: a key that is a field name or an alias of one leaves an entry under
\* the field's name (the supplied value itself for a plain field), and a key
\* that is neither leaves no entry.  Calls that supply a field under two of
\* its names are left aside.
C15_StoredUnderCanonicalName ==
    \A c \in ModelClasses : \A values \in Kwargs(c) :
        (FreeDocs(Heap, c) # {} /\ ~New(Heap, c, values).oom) =>
            LET made == New(Heap, c, values).data[FreshDoc(Heap, c)]
            IN \A f \in Descriptors(c) :
                  /\ SuppliedFor(c, values, f) = {} => made[f] = Absent
                  /\ Cardinality(SuppliedFor(c, values, f)) = 1 =>
                        /\ made[f] # Absent
                        /\ FieldDef(c, f).kind \notin {"Embedded", "List"} =>
                              \A k \in SuppliedFor(c, values, f) :
                                 made[f] = ArgVal(values[k])

\* C16: a constructor call that supplies a field both under its name and
\* under an alias fails: it produces no document, and so none that holds one
\* of the two values.
C16_AliasCollisionFails ==
    \A c \in ModelClasses : \A values \in Kwargs(c) :
        (FreeDocs(Heap, c) # {}
            /\ \E f \in Fields(c) : Cardinality(SuppliedFor(c, values, f)) > 1) =>
            LET made == New(Heap, c, values)
            IN /\ FreshDoc(Heap, c) \notin made.docs
               /\ \A f \in Fields(c) : \A k \in SuppliedFor(c, values, f) :
                     Cardinality(SuppliedFor(c, values, f)) > 1 =>
                        made.data[FreshDoc(Heap, c)][f] # ArgVal(values[k])

\* C17: reading a document attribute by an alias of a field returns what
\* reading the field returns, in every state of the document.
C17_AliasReadsCanonical ==
    \A d \in docs : \A alias \in DOMAIN AliasesDict(ClassOf(d)) :
        LET by_alias == Getattr(Heap, d, alias).ret
            by_name == Getattr(Heap, d, AliasesDict(ClassOf(d))[alias]).ret
        IN by_alias.t = by_name.t /\ by_alias.v = by_name.v

\* The fields a model inherits from its base classes.
Inherited(c) == Descriptors(c) \ Fields(c)

\* C18: a field declared on the base class of a model is a field of the
\* model: the constructor stores a value supplied for it, validate() answers
\* False when it holds an invalid value or is required and unset, and
\* dict_for_save() shows the value it holds.
C18_SubclassHasParentFields ==
    /\ \A c \in ModelClasses : \A values \in Kwargs(c) :
          (FreeDocs(Heap, c) # {} /\ ~New(Heap, c, values).oom) =>
              \A f \in Inherited(c) \cap Supplied(values) :
                  New(Heap, c, values).data[FreshDoc(Heap, c)][f] = ArgVal(values[f])
    /\ \A d \in docs : \A f \in Inherited(ClassOf(d)) : \A ord \in Orders :
          LET checked == Document_validate(Heap, d, TRUE, ord).ret
              saved == Document_dict_for_save(Heap, d, ord).ret
          IN /\ (IF Stored(Heap, d, f) = None THEN FieldDef(ClassOf(d), f).is_required
                 ELSE ~ValueOK(Heap, FieldDef(ClassOf(d), f), Stored(Heap, d, f)))
                    => ~IsTrue(checked)
             /\ (saved.t = "dict" /\ Stored(Heap, d, f) # None)
                    => f \in DOMAIN saved.v /\ saved.v[f].v = Stored(Heap, d, f)

\* The elements of a supplied list that are mappings or instances of the
\* nested model c, in their order.
KeptElems(elems, c) ==
    LET IsKept(e) == \/ ArgKind(e) = "dict"
                     \/ (ArgKind(e) = "val" /\ ArgVal(e) \in InstancesOf(c))
    IN SelectSeq(elems, IsKept)

\* In the heap `made` that a constructor call left, starting from heap H:
\* n is a new instance of model c built from the mapping m, with parent
\* `owner` under field `key` (BuiltFrom); field k of n holds what the cascade
\* makes of the supplied arg (EntryBuilt); the container read from field k of
\* n holds what the cascade makes of the supplied list (ListBuilt).
RECURSIVE BuiltFrom(_, _, _, _, _, _, _)
RECURSIVE EntryBuilt(_, _, _, _, _)
ListBuilt(H, made, n, k, elems) ==
    LET c == FieldDef(ClassOf(n), k).field_type
        kept == KeptElems(elems, c)
        got == Field_get(made, n, k)
        container == got.H.lists[got.value]
    IN /\ got.value \in ListIds
       /\ container._parent = n /\ container._field_name = k
       /\ Len(container.items) = Len(kept)
       /\ \A j \in 1..Len(kept) :
             IF ArgKind(kept[j]) = "val" THEN container.items[j] = ArgVal(kept[j])
             ELSE /\ BuiltFrom(H, made, container.items[j], c, ArgVal(kept[j]), n, k)
                  /\ \A i \in 1..(j - 1) : container.items[i] # container.items[j]

EntryBuilt(H, made, n, k, arg) ==
    LET field == FieldDef(ClassOf(n), k)
    IN IF ArgKind(arg) = "absent" THEN made.data[n][k] = Absent
       ELSE IF field.kind = "Embedded" /\ ArgKind(arg) = "dict"
       THEN BuiltFrom(H, made, made.data[n][k], field.field_type, ArgVal(arg), n, k)
       ELSE IF field.kind = "List" /\ ArgKind(arg) = "list"
       THEN ListBuilt(H, made, n, k, ArgVal(arg))
       ELSE made.data[n][k] = ArgVal(arg)

BuiltFrom(H, made, n, c, m, owner, key) ==
    /\ n \in InstancesOf(c) /\ n \notin H.docs /\ n \in made.docs
    /\ made.parent[n] = owner /\ made.pfn[n] = key
    /\ \A k \in Fields(c) : EntryBuilt(H, made, n, k, m[k])

\* C19: cascade construction.  A mapping supplied for an embedded-document
\* field becomes a new instance of the nested model built from that mapping,
\* recursively; of a list supplied for a list-of-embedded-documents field the
\* mappings become new nested instances, the instances of the nested model are
\* kept, every other element is dropped, and the container of the field holds
\* them in the order of the supplied list.
C19_CascadeConstruction ==
    \A c \in Classes : \A values \in CascadeKwargs(c) :
        (FreeDocs(Heap, c) # {} /\ ~New(Heap, c, values).oom) =>
            BuiltFrom(Heap, New(Heap, c, values), FreshDoc(Heap, c), c, values,
                      None, None)

\* A user built from a list of a token that existed and a mapping: its
\* container holds the token and then the token built from the mapping; and
\* a group built from a mapping that holds a mapping.
C19_Witness ==
    /\ "u1" \in docs /\ "g1" \in docs
    /\ data["u1"]["tokens"] \in ListIds
    /\ Len(lists[data["u1"]["tokens"]].items) = 2
    /\ parent[lists[data["u1"]["tokens"]].items[1]] = None
    /\ parent[lists[data["u1"]["tokens"]].items[2]] = "u1"
    /\ parent_field_name[lists[data["u1"]["tokens"]].items[2]] = "tokens"

Defaulted(d) ==
    {f \in Fields(ClassOf(d)) : FieldDef(ClassOf(d), f).default # None}

\* In H the field holds `value`, a further read answers it without calling
\* the factory or changing anything, and dict_for_save shows it.
Settled(H, d, f, value, ord) ==
    LET s == Document_dict_for_save(H, d, ord)
    IN /\ value # None
       /\ H.data[d][f] = value
       /\ Field_get(H, d, f) = [H |-> H, value |-> value]
       /\ Document_validate(H, d, TRUE, ord).H.data[d][f] = value
       /\ s.H.data[d][f] = value
       /\ s.ret.t = "dict" => s.ret.v[f] = Ret("val", value)

Contents(H, value) ==
    IF value \in ListIds \cup {PlainList} THEN <<"list", ListItems(H, value)>>
    ELSE <<"value", value>>
OwnState(H, d) ==
    [data |-> [f \in DOMAIN H.data[d] |-> Contents(H, H.data[d][f])],
     modified |-> H.modified[d],
     is_valid |-> H.is_valid[d]]

\* The heaps one operation on instance a can lead to: a write, a read (which
\* may materialize a default or an empty list), validate(), dict_for_save()
\* and an append to the list a field answers.
AfterOperationOn(a) ==
    {Field_set(Heap, a, f, value) :
        f \in Fields(ClassOf(a)), value \in {"i0", "s", None}}
    \cup {Field_get(Heap, a, f).H : f \in Fields(ClassOf(a))}
    \cup {Document_validate(Heap, a, TRUE, ord).H : ord \in Orders}
    \cup {Document_dict_for_save(Heap, a, ord).H : ord \in Orders}
    \cup {list_append(Heap, a, f, "s") :
            f \in {g \in Fields(ClassOf(a)) : FieldDef(ClassOf(a), g).kind = "List"}}

\* C22: an operation on one instance leaves what every other instance of
\* the same model holds as it was: its stored values, its modified set and
\* its cached validity.
C22_InstancesShareNothing ==
    \A a \in docs : \A b \in docs \ {a} :
        ClassOf(a) = ClassOf(b) =>
            \A H \in AfterOperationOn(a) :
                ~H.oom => OwnState(H, b) = OwnState(Heap, b)

\* ------------------------------------------------------------------- C23
\* `if stop_on_required and self._is_valid: return True`: validate() answers
\* from the cache, no field predicate run.
AnsweredFromCache(H, self) == H.is_valid[self]

\* C23 as stated: validate() called twice in a row answers the same both
\* times, and the second call is answered from the cache.
C23_SecondValidateCached ==
    \A d \in docs : \A ord \in Orders :
        LET first == Document_validate(Heap, d, TRUE, ord)
            second == Document_validate(first.H, d, TRUE, ord)
        IN /\ second.ret = first.ret
           /\ AnsweredFromCache(first.H, d)

\* C23 amended: validate() called twice in a row answers the same both
\* times and the second call changes nothing; the second call is answered
\* from the cache exactly when the first answered True, so that after a
\* False the field predicates run again.
C23_SecondValidateCachedOnSuccess ==
    \A d \in docs : \A ord \in Orders :
        LET first == Document_validate(Heap, d, TRUE, ord)
            second == Document_validate(first.H, d, TRUE, ord)
        IN /\ second.ret = first.ret
           /\ second.H = first.H
           /\ AnsweredFromCache(first.H, d) <=> IsTrue(first.ret)

\* A document validate() has answered True for, and one it answers False for.
C23_Witness ==
    /\ \E d \in docs : is_valid[d]
    /\ \E d \in docs : \E ord \in Orders :
          /\ ~is_valid[d]
          /\ IsFalse(Document_validate(Heap, d, TRUE, ord).ret)

\* ------------------------------------------------------------------- C24
\* C24: dict_for_modified_fields() answers a mapping whose keys are exactly
\* modified_fields() and whose values are the stored values of those fields;
\* every modified name is a declared field of the document with an entry in
\* its storage, so that the call never fails with a lookup error.
C24_ModifiedFieldsMapping ==
    \A d \in docs :
        LET r == Document_dict_for_modified_fields(Heap, d)
            names == Document_modified_fields(Heap, d)
        IN /\ names \subseteq Fields(ClassOf(d))
           /\ \A name \in names : HasKey(Heap, d, name)
           /\ r.ret.t = "dict"
           /\ DOMAIN r.ret.v = names
           /\ \A name \in names : r.ret.v[name] = Ret("val", data[d][name])

\* ------------------------------------------------------------------- C25
\* C25: when validate_partial() fails on a document, because a field holds
\* a value its type predicate rejects, dict_for_modified_fields() answers no
\* mapping but fails with a validation error.
C25_ModifiedFieldsValidated ==
    \A d \in docs : \A ord \in Orders :
        IsFalse(Document_validate_partial(Heap, d, ord).ret) =>
            Raises(Document_dict_for_modified_fields(Heap, d).ret,
                   "ValidationException")

\* ------------------------------------------------------------------- C26
\* C26: validate() and validate_partial() answer True or False whatever the
\* fields hold and never raise; dict_for_save, dict_for_public and
\* dict_for_owner answer a mapping or raise ValidationException.
C26_ValidateNeverRaises ==
    \A d \in docs : \A ord \in Orders :
        /\ Document_validate(Heap, d, TRUE, ord).ret.t = "bool"
        /\ Document_validate_partial(Heap, d, ord).ret.t = "bool"
        /\ \A visibility \in {"save", "public", "owner"} :
              LET r == DictFor(Heap, d, visibility, ord)
              IN r.ret.t = "dict" \/ Raises(r.ret, "ValidationException")

\* ------------------------------------------------------------------- C27
\* The mapping a dict_for_* call of a document without nested documents
\* builds before its filters: the stored fields, all of them for save, the
\* listed ones otherwise.
Unfiltered(H, d, visibility) ==
    DataCopy(H, d,
             IF visibility = "save" THEN Fields(ClassOf(d))
             ELSE Names(FieldsList(ClassOf(d), visibility, <<>>)) \cap Fields(ClassOf(d)))

\* The filters 1..n of a chain applied one after the other, the first first.
RECURSIVE Chained(_, _, _)
Chained(chain, n, mapping) ==
    IF n = 0 THEN mapping
    ELSE ApplyFilter(chain[n], Chained(chain, n - 1, mapping))

\* C27: the mapping dict_for_save, dict_for_public and dict_for_owner answer
\* is the unfiltered mapping with the filters of that visibility's chain
\* applied in list order (for Host.dict_for_save: the name added, then
\* renamed to label), and the unfiltered mapping when no chain is configured.
C27_FiltersInListOrder ==
    \A d \in docs \cap Hosts : \A visibility \in {"save", "public", "owner"} :
        \A ord \in Orders :
            LET r == DictFor(Heap, d, visibility, ord)
                chain == FilterChain(ClassOf(d), visibility)
            IN r.ret.t = "dict" =>
                  /\ r.ret.v = Chained(chain, Len(chain), Unfiltered(r.H, d, visibility))
                  /\ chain = <<>> => r.ret.v = Unfiltered(r.H, d, visibility)
                  /\ visibility = "save" =>
                        /\ "label" \in DOMAIN r.ret.v
                        /\ "name" \notin DOMAIN r.ret.v

\* A valid host with an address: its three mappings are built, the public
\* one with the address renamed.
C27_Witness ==
    \E d \in docs \cap Hosts : \E ord \in Orders :
        /\ is_valid[d]
        /\ data[d]["ip"] = "ip"
        /\ DictFor(Heap, d, "save", ord).ret.t = "dict"
        /\ DictFor(Heap, d, "owner", ord).ret.t = "dict"
        /\ LET r == DictFor(Heap, d, "public", ord)
           IN r.ret.t = "dict" /\ "address" \in DOMAIN r.ret.v

\* ------------------------------------------------------------------- C28
\* The values an Integer field is meant to take, and a Boolean field.
IntegerOK(value) == value \in IntValues
BooleanOK(value) == value \in {"bT", "bF"}

\* The fields of d declared with choices.
Chosen(d) ==
    {f \in Fields(ClassOf(d)) : FieldDef(ClassOf(d), f).has_choices}

\* C28: a value present in a field declared with choices passes validation
\* exactly when it is one of the choices and satisfies the type predicate of
\* the field; validate() answers True for no document holding another value.
C28_ChoicesAndType ==
    \A d \in docs : \A f \in Chosen(d) : \A ord \in Orders :
        LET value == DataGet(Heap, d, f)
            r == Document_validate_fields(Heap, d, <<f>>, TRUE, ord)
            passes == value \in FieldDef(ClassOf(d), f).choices /\ IntegerOK(value)
        IN value # None =>
              /\ r.ret.t = "bool"
              /\ r.ret.v <=> passes
              /\ IsTrue(Document_validate(Heap, d, TRUE, ord).ret) => passes

\* A host that validate() accepted with a level among the choices.
C28_Witness ==
    \E d \in docs \cap Hosts : is_valid[d] /\ data[d]["level"] = "i3"

\* ------------------------------------------------------------------- C30
\* C30: an Integer field accepts a value exactly when it is an integer that
\* is neither a boolean nor a float, and a Boolean field exactly when it is
\* a boolean.
C30_IntegerAndBooleanPredicates ==
    \A d \in docs \cap Hosts : \A ord \in Orders :
        /\ DataGet(Heap, d, "port") # None =>
              (IsTrue(Document_validate_fields(Heap, d, <<"port">>, TRUE, ord).ret)
                  <=> IntegerOK(DataGet(Heap, d, "port")))
        /\ DataGet(Heap, d, "enabled") # None =>
              (IsTrue(Document_validate_fields(Heap, d, <<"enabled">>, TRUE, ord).ret)
                  <=> BooleanOK(DataGet(Heap, d, "enabled")))

\* ------------------------------------------------------------------- C29
\* The embedded-document fields of d.
Embedded(d) ==
    {f \in Fields(ClassOf(d)) : FieldDef(ClassOf(d), f).kind = "Embedded"}

\* C29: the value an embedded-document field holds is valid exactly when it
\* is an instance of the declared nested model whose own strict validation
\* succeeds: validation of the field answers True for such a value and False
\* for every other, and validate() answers True for no document that holds a
\* value that is not a document or a nested document with a required field
\* unset.
C29_EmbeddedValidity ==
    \A d \in docs : \A f \in Embedded(d) : \A ord \in Orders :
        LET value == DataGet(Heap, d, f)
            valid == /\ value \in InstancesOf(FieldDef(ClassOf(d), f).field_type)
                     /\ StrictOK(Heap, value)
            r == Document_validate_fields(Heap, d, <<f>>, TRUE, ord)
        IN value # None =>
              /\ r.ret.t = "bool"
              /\ r.ret.v <=> valid
              /\ IsTrue(Document_validate(Heap, d, TRUE, ord).ret) => valid

\* ------------------------------------------------------------------- C31
\* C31: rename_field(old, new, m) of a mapping m that contains old maps new
\* to the value m held under old, does not contain old when old differs from
\* new, and leaves every other entry as it was; a mapping that does not
\* contain old is returned unchanged.
C31_RenameField ==
    \A old_name \in FilterNames : \A new_name \in FilterNames :
        LET m == the_dict
            r == rename_field(old_name, new_name, m)
        IN IF old_name \in DOMAIN m
           THEN /\ new_name \in DOMAIN r
                /\ r[new_name] = m[old_name]
                /\ old_name # new_name => old_name \notin DOMAIN r
                /\ DOMAIN r \ {new_name} = DOMAIN m \ {old_name, new_name}
                /\ \A k \in DOMAIN m \ {old_name, new_name} : r[k] = m[k]
           ELSE r = m

\* ------------------------------------------------------------------- C32
\* C32: every document e stored in document d, as the value of field f or
\* as an element of the container stored in field f, has _parent d and
\* _parent_field_name f.
C32_ParentLinks ==
    \A d \in docs : \A f \in Fields(ClassOf(d)) :
        \A e \in Children(Heap, d, f) :
            parent[e] = d /\ parent_field_name[e] = f

\* ------------------------------------------------------------------- C33
\* The heap with the cached validity of d set to b.
WithCache(H, d, b) == [H EXCEPT !.is_valid[d] = b]

\* validate_partial() on d neither consults nor changes the cached validity
\* of d; dict_for_public() and dict_for_owner() do not set it.
CacheLeftAlone ==
    \A d \in docs : \A ord \in Orders :
        /\ Document_validate_partial(Heap, d, ord).H.is_valid[d] = is_valid[d]
        /\ \A b \in BOOLEAN :
              LET p == Document_validate_partial(WithCache(Heap, d, b), d, ord)
              IN /\ p.ret = Document_validate_partial(Heap, d, ord).ret
                 /\ p.H.is_valid[d] = b
        /\ ~is_valid[d] =>
              /\ ~Document_dict_for_public(Heap, d, ord).H.is_valid[d]
              /\ ~Document_dict_for_owner(Heap, d, ord).H.is_valid[d]

\* A step sets the cached validity of a document only if the document
\* exists and its strict validate() succeeds.
CacheSetByValidate ==
    \A d \in DocIds :
        (~is_valid[d] /\ is_valid'[d]) =>
            /\ d \in docs
            /\ \E ord \in Orders : IsTrue(Document_validate(Heap, d, TRUE, ord).ret)

\* C33: the cached validity of a document starts false and becomes true
\* only where a strict validate() of that document succeeds;
\* validate_partial() neither consults nor changes the cached validity of
\* the document it is called on, and dict_for_public() and dict_for_owner()
\* never set it.
C33_CacheSetOnlyByStrictValidate ==
    /\ [](\A d \in DocIds \ docs : ~is_valid[d])
    /\ []CacheLeftAlone
    /\ [][CacheSetByValidate]_vars

\* A document whose validate_partial() answers True while its cache is
\* unset, next to one whose cache a strict validate() has set.
C33_Witness ==
    /\ \E d \in docs : is_valid[d]
    /\ \E d \in docs : \E ord \in Orders :
          /\ ~is_valid[d]
          /\ IsTrue(Document_validate_partial(Heap, d, ord).ret)
          /\ Document_dict_for_public(Heap, d, ord).ret.t = "dict"

\* ------------------------------------------------------------------- C34
\* Reading a field, either validation and every dict_for_* call leave the
\* modified set of every document as it is.
ReadsLeaveModified ==
    \A d \in docs : \A ord \in Orders :
        /\ \A f \in Fields(ClassOf(d)) :
              Field_get(Heap, d, f).H.modified = modified_fields
        /\ Document_validate(Heap, d, TRUE, ord).H.modified = modified_fields
        /\ Document_validate_partial(Heap, d, ord).H.modified = modified_fields
        /\ Document_dict_for_save(Heap, d, ord).H.modified = modified_fields
        /\ Document_dict_for_public(Heap, d, ord).H.modified = modified_fields
        /\ Document_dict_for_owner(Heap, d, ord).H.modified = modified_fields

\* A step removes no name from the modified set of an existing document.
ModifiedGrows ==
    \A d \in docs : modified_fields[d] \subseteq modified_fields'[d]

\* C34: reading a field, validate(), validate_partial() and every dict_for_*
\* leave every document's modified set unchanged (names enter only through
\* setter writes and container mutations), and no operation ever removes a
\* name from a modified set.
C34_ModifiedSetFrame ==
    /\ []ReadsLeaveModified
    /\ [][ModifiedGrows]_vars

\* A document with a recorded name whose unset list field a read would
\* fill with a new container.
C34_Witness ==
    \E d \in docs : \E f \in Fields(ClassOf(d)) \cap ListFields :
        /\ modified_fields[d] # {}
        /\ data[d][f] = Absent
        /\ Field_get(Heap, d, f).H.data[d][f] \in ListIds

\* ------------------------------------------------------------------- C35
\* The outcome r of a container call leaves l with the contents `items` and
\* answers `ret`.
Outcome(r, l, items, ret) == r.H.lists[l].items = items /\ r.ret = ret

\* C35: for append, insert, item assignment and deletion, remove, extend,
\* the slice operations and pop, the notifying container ends with the
\* contents a plain list would have and answers what a plain list would
\* answer; in particular pop answers the element it removed.
C35_ContainerRefinesList ==
    \A self \in docs : \A f \in Fields(ClassOf(self)) \cap ListFields :
        HoldsList(self, f) =>
        LET l == data[self][f]
            items == lists[l].items
            n == Len(items)
        IN /\ \A obj \in Elems : CanAppend(self, f) =>
                 Outcome(NPL_append(Heap, l, obj), l, Append(items, obj), RetNone)
           /\ \A index \in Indexes : \A obj \in Elems : CanInsert(self, f, index) =>
                 Outcome(NPL_insert(Heap, l, index, obj), l,
                         ListInsert(items, index, obj), RetNone)
           /\ \A key \in Indexes : \A value \in Elems : CanIndex(self, f, key) =>
                 IF key < n
                 THEN Outcome(NPL_setitem(Heap, l, key, value), l,
                              ListReplace(items, key, value), RetNone)
                 ELSE Outcome(NPL_setitem(Heap, l, key, value), l, items,
                              Raise("IndexError"))
           /\ \A key \in Indexes : CanIndex(self, f, key) =>
                 IF key < n
                 THEN Outcome(NPL_delitem(Heap, l, key), l,
                              ListDelete(items, key), RetNone)
                 ELSE Outcome(NPL_delitem(Heap, l, key), l, items,
                              Raise("IndexError"))
           /\ \A value \in Elems :
                 IF InList(items, value)
                 THEN Outcome(NPL_remove(Heap, l, value), l,
                              ListDelete(items, FirstIndex(items, value) - 1),
                              RetNone)
                 ELSE Outcome(NPL_remove(Heap, l, value), l, items,
                              Raise("ValueError"))
           /\ \A iterable \in ArgSeqs : CanExtend(self, f, iterable) =>
                 Outcome(NPL_extend(Heap, l, iterable), l, items \o iterable,
                         RetNone)
           /\ \A i \in Indexes : \A j \in Indexes : \A seq \in ArgSeqs :
                 CanSetSlice(self, f, i, j, seq) =>
                 Outcome(NPL_setslice(Heap, l, i, j, seq), l,
                         ListSetSlice(items, i, j, seq), RetNone)
           /\ \A i \in Indexes : \A j \in Indexes : CanSlice(self, f, i, j) =>
                 Outcome(NPL_delslice(Heap, l, i, j), l,
                         ListSetSlice(items, i, j, <<>>), RetNone)
           /\ \A args \in PopArgs : CanPop(self, f, args) =>
                 LET k == IF args = <<>> THEN n - 1 ELSE args[1]
                 IN IF n = 0 \/ k >= n
                    THEN Outcome(NPL_pop(Heap, l, args), l, items,
                                 Raise("IndexError"))
                    ELSE Outcome(NPL_pop(Heap, l, args), l,
                                 ListDelete(items, k), Ret("val", items[k + 1]))

\* ------------------------------------------------------------------- C36
\* A call that raises leaves the modified sets and the parent links alone.
FailsCleanly(r) ==
    r.ret.t = "raise" =>
        /\ r.H.modified = modified_fields
        /\ r.H.parent = parent
        /\ r.H.pfn = parent_field_name

\* C36: a container operation that fails without changing the list (remove
\* of an absent value, item assignment, item deletion or pop with an index
\* out of range, pop on an empty list) leaves the modified sets of the owner
\* and of its ancestors, and the parent link of every document, unchanged.
C36_FailedCallChangesNothing ==
    \A self \in docs : \A f \in Fields(ClassOf(self)) \cap ListFields :
        ForAllContainerCalls(FailsCleanly, self, f)

\* ------------------------------------------------------------------- C37
\* validate() answers the same on both heaps.
SameValidate(H1, H2, d, ord) ==
    Document_validate(H1, d, TRUE, ord).ret = Document_validate(H2, d, TRUE, ord).ret

\* dict_for_save() raises on both heaps or answers mappings with the same
\* keys.
SameSaveKeys(H1, H2, d, ord) ==
    LET r1 == Document_dict_for_save(H1, d, ord).ret
        r2 == Document_dict_for_save(H2, d, ord).ret
    IN /\ r1.t = r2.t
       /\ r1.t = "dict" => DOMAIN r1.v = DOMAIN r2.v

\* C37: reading a field never changes the outcome of validation or of
\* serialization: the result of validate() and the key set of
\* dict_for_save() are the same whether or not a field of the document, an
\* unset list field included, was read beforehand.
C37_ReadsChangeNoOutcome ==
    \A d \in docs : \A f \in Fields(ClassOf(d)) : \A ord \in Orders :
        /\ SameValidate(Heap, Field_get(Heap, d, f).H, d, ord)
        /\ SameSaveKeys(Heap, Field_get(Heap, d, f).H, d, ord)

\* ------------------------------------------------------------------- C38
\* C38: the container stored in list field f of document d has owner d and
\* owner field name f, also after d.f was assigned a container obtained from
\* another document's list field; so a mutation through d.f marks f in d and
\* changes the modified set of no document outside d's parent chain.
C38_ContainerOwner ==
    \A d \in docs : \A f \in Fields(ClassOf(d)) \cap ListFields :
        HoldsList(d, f) =>
            /\ lists[data[d][f]]._parent = d
            /\ lists[data[d][f]]._field_name = f
            /\ \A obj \in Elems : CanAppend(d, f) =>
                  LET r == NPL_append(Heap, data[d][f], obj).H
                  IN /\ f \in r.modified[d]
                     /\ \A o \in docs \ ParentChain(Heap, d) :
                           r.modified[o] = modified_fields[o]

\* ------------------------------------------------------------------- C39
\* e is the embedded document of a field of d or an element of the container
\* of a list field of d.
StoredIn(H, d, e) == \E f \in Fields(ClassOf(d)) : e \in Children(H, d, f)

\* The parent link of e names a document that stores e.
ParentStoresIt(e) == parent[e] # None => StoredIn(Heap, parent[e], e)

\* No write to e adds a name to the modified set of d.
WritesLeave(e, d) ==
    \A f \in Fields(ClassOf(e)) : \A value \in SetInputs(ClassOf(e), f) :
        Field_set(Heap, e, f, value).modified[d] = modified_fields[d]

\* C39: the parent link of a document points to d only while the document
\* is stored in d: once it was removed from d's container, or only appeared
\* as the right-hand operand of a concatenation, or was attached to another
\* document, writes to it add no name to the modified set of d.
C39_NoStaleParentLink ==
    \A e \in docs :
        /\ ParentStoresIt(e)
        /\ \A d \in docs : ~Holds(Heap, d, e) => WritesLeave(e, d)

\* ------------------------------------------------------------------- C40
\* C40: every field write and container mutation terminates: the upward
\* walk along the parent links is left from every document of every
\* reachable state, and the walk an append starts is left whatever document
\* is appended, the owner of the list and the documents holding the owner
\* included.
C40_PropagationTerminates ==
    /\ \A d \in docs : WalkEnds(Heap, d, Cardinality(DocIds))
    /\ \A self \in docs : \A f \in Fields(ClassOf(self)) \cap ListFields :
          \A obj \in docs :
              CanAppend(self, f) => AppendReturns(Heap, data[self][f], obj)

====
